---------------------------- MODULE Spec2Model ----------------------------
(***************************************************************************)
(* Model of outbound-lb: the connection limiter (internal/limiter), the    *)
(* proxy request handlers that use it (internal/proxy) and the per-host    *)
(* LRU selector with its history (internal/balancer), the health checker   *)
(* whose result the selector filters by (internal/health), the CONNECT     *)
(* tunnel with its idle timeout, proxy authentication and the headers of   *)
(* forwarded requests (internal/proxy).                                    *)
(*                                                                         *)
(* Every atomic load, compare-and-swap and add of the limiter is one step  *)
(* of the goroutine that executes it, so the interleavings of the model    *)
(* are the interleavings of the atomics in the code.                       *)
(***************************************************************************)
EXTENDS Integers, Sequences, FiniteSets, TLC

(***************************************************************************)
(* Bounds of the model.                                                    *)
(***************************************************************************)
\* limiter.New(maxPerIP, maxTotal, ips): the caps the limiter starts with
MaxPerIP == 1
MaxTotal == 2
\* how many Release calls are made for an IP that has no counter
MaxUnpaired == 1

\* the clock of the model runs from 1 to MaxClock
MaxClock == 3
\* history entries stored at most, over all hosts
MaxEntries == 2
\* LRU.historyWindow ranges over 1..MaxWindow ticks of the clock
MaxWindow == 2
\* LRU.historySize ranges over 1..MaxHistorySize
MaxHistorySize == 2
\* select/record rounds of the rotation scenario
MaxRequests == 9
\* History: the largest max_total_entries, and the entries stored or about to
\* be stored by the goroutines that record concurrently
MaxCap == 2
MaxStored == 3
\* History: the largest History.totalEntries
MaxCounted == 3
\* health checker: the largest threshold and the largest consecutive count
MaxThreshold == 2
MaxCount == 2
\* the entries recorded while the health checker runs
MaxHealthRecords == 1

\* the goroutines that call the limiter (one per client connection)
Procs == {"g1", "g2", "g3"}
\* the IPs limiter.New is given
LimiterIPs == {"ip1", "ip2"}
\* an IP that is not configured (limiter.go:641 TestLimiter_UnknownIP)
UnknownIP == "ip9"
\* the IPs clients pass to Acquire
AcquireIPs == LimiterIPs \cup {UnknownIP}
\* Config.IPs of the balancer, in configured order (balancer_test.go:50)
IPs == <<"ip1", "ip2", "ip3">>
\* the destination hosts of requests
Hosts == {"a.test", "b.test"}
\* the zero time.Time, which no clock reading equals
ZeroTime == 0
\* the empty string Select returns together with an error
NoIP == ""

VARIABLES
  \* ---- Limiter (limiter.go:28-34)
  total,        \* Limiter.total
  perIP,        \* Limiter.perIP: IP -> counter, for the IPs that have one
  maxPerIP,     \* Limiter.maxPerIP
  maxTotal,     \* Limiter.maxTotal
  \* ---- one goroutine per element of Procs
  pc,           \* where the goroutine is
  caller,       \* who called the limiter: "client" or "handler"
  ip,           \* the ip argument of Acquire / Release
  locMaxTotal,  \* Acquire's local maxTotal (limiter.go:60)
  locMaxPerIP,  \* Acquire's local maxPerIP (limiter.go:61)
  current,      \* Acquire's local current (limiter.go:65)
  ipCount,      \* Acquire's local ipCount (limiter.go:90)
  res,          \* what the goroutine's last Acquire returned
  \* ---- the configuration watcher's callback (main.go:103)
  upc,          \* where the UpdateLimits call is
  updArg,       \* its arguments <<maxPerIP, maxTotal>>
  \* ---- request handlers (connect.go, handler.go)
  kind,         \* "connect" or "forward"
  reqHost,      \* the destination host of the request
  deferred,     \* TRUE once `defer limiter.Release(ip)` has been executed
  exitPath,     \* the return statement the handler left through
  nRel,         \* Release calls made for the current request
  \* ---- history variables of the proof
  incTotal,     \* net amount the goroutine has added to total
  incIP,        \* net amount the goroutine has added to perIP[ip]
  fresh,        \* the goroutine is in an Acquire begun after the last UpdateLimits returned
  nUnpaired     \* Release calls made so far for an IP without counter

VARIABLES
  \* ---- LRU (part_013:37-47) and its History (part_012:83-88)
  now,             \* time.Now()
  historyWindow,   \* LRU.historyWindow
  historySize,     \* LRU.historySize
  hosts,           \* History.hosts: host -> HostHistory.entries
  maxTotalEntries, \* History.maxTotalEntries
  totalEntries,    \* History.totalEntries
  \* ---- the caller of the balancer
  bpc,             \* "idle", or "selected" / "error" while it holds what
                   \* Select returned
  selHost,         \* the host of its last Select
  selUnlimited,    \* the IPs the limiter reported available to that Select
  selAvail,        \* the availableIPs that Select iterated over
  selected,        \* the IP that Select returned
  \* ---- history variables of the proof
  selFresh,        \* nothing the balancer reads has changed since that Select
  used,            \* IP -> times it was selected and then recorded
  nReq             \* select/record rounds completed

VARIABLES
  \* ---- goroutines inside History.Record (part_012:135-149)
  rpc,             \* "idle", "getOrCreate" or "add"
  recHost,         \* the host argument of Record
  recIP,           \* the ip argument of Record
  orphan,          \* the HostHistory that GetOrCreate returned has since been
                   \* deleted from History.hosts
  removed,         \* history variable: the hosts that the last operation on
                   \* the History deleted from History.hosts
  evicted,         \* history variable: the entry that the last operation on
                   \* the History evicted, with its host
  \* ---- HealthChecker (checker_tcp.go:74-80) and its IPStatus (status.go:36-44)
  State,                 \* IPStatus.State of each configured IP
  ConsecutiveFailures,   \* IPStatus.ConsecutiveFailures
  ConsecutiveSuccesses,  \* IPStatus.ConsecutiveSuccesses
  FailureThreshold,      \* HealthCheckerConfig.FailureThreshold
  SuccessThreshold       \* HealthCheckerConfig.SuccessThreshold

VARIABLES
  \* ---- the requests on the wire (handler.go, part_014)
  reqAuth,         \* the Proxy-Authorization header of the request that each
                   \* goroutine serves
  inHeader,        \* the http.Header of an incoming request to forward
  outHeader,       \* the http.Header of the outgoing request made from it
  \* ---- ConnectHandler.tunnel and its two copyWithIdleTimeout (connect.go)
  idleTimeout,     \* cfg.IdleTimeout
  clock,           \* time.Now() of the tunnel
  tpc,             \* where each copy is: "read", "write", "store", "done"
  copyTotal,       \* the local total of each copyWithIdleTimeout
  nRead,           \* the n of the last src.Read of each copy
  readErr,         \* the readErr of the last src.Read of each copy
  deadline,        \* the deadline of the Read or Write each copy is in, set
                   \* by src.SetReadDeadline or dst.SetWriteDeadline
  inOut,           \* the atomics in and out of tunnel
  bytes,           \* what tunnel returned: <<bytesIn, bytesOut>>, or <<>>
  \* ---- history variables of the proof
  wrote,           \* the bytes each copy has written to its dst
  lastFlow,        \* the last time a Read or a Write moved data
  endOf            \* how each copy ended

VARIABLES
  \* ---- Handler.getClientIP (handler.go)
  RemoteAddr,      \* r.RemoteAddr, a string as the sequence of its characters
  clientIP,        \* what getClientIP returned, Unset before the call
  \* ---- CircuitBreaker, the ipState of one IP (part_013)
  config,          \* cb.config: FailureThreshold, SuccessThreshold, Timeout
  exists,          \* whether cb.states holds an ipState for the IP
  state,           \* ipState.state
  failures,        \* ipState.failures
  successes,       \* ipState.successes
  lastFailure,     \* ipState.lastFailure
  cbNow,           \* time.Now() of the circuit breaker
  lastCall,        \* the last call made: <<method, result>>
  streak,          \* history variable: the kind and the number of the
                   \* Record calls of one kind made in a row since the
                   \* last call of the other kind or change of state
  \* ---- HealthChecker.Start, Stop and checkLoop (checker_tcp.go)
  loop,            \* where checkLoop is: "none" before Start, "enter",
                   \* "checkAll", "select", "done"
  probe,           \* the goroutine that checkAll starts for each IP:
                   \* "idle", "check", "done"
  stopCh,          \* hc.stopCh: "open" or "closed"
  stopper,         \* where Stop is: "idle", "wait", "returned"
  ticks,           \* the ticks of the ticker that checkLoop has received
  \* ---- main, from the shutdown signal on (main.go, part_014)
  mainPc,          \* where main is
  ready,           \* metricsServer.ready
  listening,       \* whether the listener of the proxy accepts connections
  conns,           \* each client connection: "closed", "idle", "active"
                   \* (a request of it holds a slot of the limiter)
  transports,      \* the idle upstream connections of the transport pool:
                   \* "kept" or "closed"
  cleanupLoop,     \* LRU.cleanupLoop: "running" or "stopped"
  checkLoop,       \* HealthChecker.checkLoop: "running" or "stopped"
  waited,          \* the time since the shutdown signal
  done,            \* history variable: the steps of the shutdown made
  late,            \* history variable: the connections accepted after main
                   \* began to wait for the connections
  \* ---- the locks of History and HostHistory (part_012)
  todo,            \* what each goroutine has still to do in its call: the
                   \* lock operations and map updates, in program order
  lockW,           \* the goroutine that holds each lock for writing, or
                   \* NoProc
  lockR,           \* the goroutines that hold each lock for reading
  lockQ,           \* the goroutines that are inside Lock() of each lock
  present,         \* the hosts that h.hosts has a HostHistory for
  hasCap           \* h.maxTotalEntries > 0

counters == <<total, perIP>>
caps == <<maxPerIP, maxTotal>>
locals == <<locMaxTotal, locMaxPerIP, current, ipCount>>
updVars == <<upc, updArg>>
handlerVars == <<kind, reqHost, deferred, exitPath, nRel>>
ghosts == <<incTotal, incIP, fresh, nUnpaired>>

limVars == <<counters, caps, pc, caller, ip, locals, res, updVars,
             handlerVars, ghosts>>

lruConfig == <<historyWindow, historySize>>
historyVars == <<hosts, maxTotalEntries, totalEntries>>
selVars == <<bpc, selHost, selUnlimited, selAvail, selected, selFresh>>
rotation == <<used, nReq>>

balVars == <<now, lruConfig, historyVars, selVars, rotation>>

recVars == <<rpc, recHost, recIP, orphan, removed, evicted>>
statusVars == <<State, ConsecutiveFailures, ConsecutiveSuccesses>>
thresholds == <<FailureThreshold, SuccessThreshold>>
healthVars == <<statusVars, thresholds>>

headerVars == <<inHeader, outHeader>>
tunnelVars == <<idleTimeout, clock, tpc, copyTotal, nRead, readErr, deadline,
                inOut, bytes, wrote, lastFlow, endOf>>
addrVars == <<RemoteAddr, clientIP>>
ipStateVars == <<exists, state, failures, successes, lastFailure>>
breakerVars == <<config, ipStateVars, cbNow, lastCall, streak>>
checkerVars == <<loop, probe, stopCh, stopper, ticks>>
mainVars == <<mainPc, ready, listening, conns, transports, cleanupLoop,
              checkLoop, waited, done, late>>
lockVars == <<todo, lockW, lockR, lockQ, present, hasCap>>
extVars == <<addrVars, breakerVars, checkerVars, mainVars, lockVars>>
ioVars == <<reqAuth, headerVars, tunnelVars, extVars>>

vars == <<limVars, balVars, recVars, healthVars, ioVars>>

\* the variables the limiter and the handlers leave alone
notLim == <<balVars, recVars, healthVars, ioVars>>
\* the variables the balancer leaves alone
notBal == <<limVars, recVars, healthVars, ioVars>>

(***************************************************************************)
(* Limiter                                                                 *)
(***************************************************************************)

\* limiter.New(mp, mt, ips) and goroutines that have called nothing
InitLimiter(mp, mt, ips) ==
  /\ total = 0
  /\ perIP = [i \in ips |-> 0]
  /\ maxPerIP = mp
  /\ maxTotal = mt
  /\ pc = [p \in Procs |-> "idle"]
  /\ caller = [p \in Procs |-> "client"]
  /\ ip = [p \in Procs |-> "ip1"]
  /\ locMaxTotal = [p \in Procs |-> 0]
  /\ locMaxPerIP = [p \in Procs |-> 0]
  /\ current = [p \in Procs |-> 0]
  /\ ipCount = [p \in Procs |-> 0]
  /\ res = [p \in Procs |-> "none"]
  /\ upc = "idle"
  /\ updArg = <<0, 0>>
  /\ kind = [p \in Procs |-> "none"]
  /\ reqHost = [p \in Procs |-> ""]
  /\ deferred = [p \in Procs |-> FALSE]
  /\ exitPath = [p \in Procs |-> "none"]
  /\ nRel = [p \in Procs |-> 0]
  /\ incTotal = [p \in Procs |-> 0]
  /\ incIP = [p \in Procs |-> 0]
  /\ fresh = [p \in Procs |-> FALSE]
  /\ nUnpaired = 0

\* a handler that goes on to the upstream whatever Acquire returned
AfterAcquireIgnoreError(p, r) ==
  IF caller[p] = "client"
    THEN IF r = "ok" THEN "holding" ELSE "idle"
    ELSE "h_acquired"

\* where a goroutine continues when Acquire returns r
AfterAcquire(p, r) ==
  IF caller[p] = "client"
    THEN IF r = "ok" THEN "holding" ELSE "idle"
    ELSE IF r = "ok" THEN "h_acquired" ELSE "h_limit"

\* where a goroutine continues when Release returns
AfterRelease(p) ==
  IF caller[p] = "client" THEN "idle" ELSE "h_done"

\* Acquire returns r: its locals die
AcquireReturn(p, r) ==
  /\ pc' = [pc EXCEPT ![p] = AfterAcquire(p, r)]
  /\ res' = [res EXCEPT ![p] = r]
  /\ locMaxTotal' = [locMaxTotal EXCEPT ![p] = 0]
  /\ locMaxPerIP' = [locMaxPerIP EXCEPT ![p] = 0]
  /\ current' = [current EXCEPT ![p] = 0]
  /\ ipCount' = [ipCount EXCEPT ![p] = 0]
  /\ fresh' = [fresh EXCEPT ![p] = FALSE]

\* a goroutine enters Acquire(i)
EnterAcquire(p, i) ==
  /\ ip' = [ip EXCEPT ![p] = i]
  /\ pc' = [pc EXCEPT ![p] = "a_loadMaxTotal"]
  /\ res' = [res EXCEPT ![p] = "none"]
  /\ fresh' = [fresh EXCEPT ![p] = (upc = "idle")]

\* a client goroutine calls Acquire(i)
CallAcquire(p, i) ==
  /\ pc[p] = "idle"
  /\ EnterAcquire(p, i)
  /\ caller' = [caller EXCEPT ![p] = "client"]
  /\ UNCHANGED <<counters, caps, locals, updVars, handlerVars, incTotal,
                 incIP, nUnpaired>>
  /\ UNCHANGED notLim

\* maxTotal := int64(l.maxTotal.Load())
AcqLoadMaxTotal(p) ==
  /\ pc[p] = "a_loadMaxTotal"
  /\ locMaxTotal' = [locMaxTotal EXCEPT ![p] = maxTotal]
  /\ pc' = [pc EXCEPT ![p] = "a_loadMaxPerIP"]
  /\ UNCHANGED <<counters, caps, caller, ip, locMaxPerIP, current, ipCount,
                 res, updVars, handlerVars, ghosts>>
  /\ UNCHANGED notLim

\* an Acquire that uses the per-IP cap the limiter was constructed with
AcqLoadMaxPerIPStale(p) ==
  /\ pc[p] = "a_loadMaxPerIP"
  /\ locMaxPerIP' = [locMaxPerIP EXCEPT ![p] = MaxPerIP + 1]
  /\ pc' = [pc EXCEPT ![p] = "a_loadTotal"]
  /\ UNCHANGED <<counters, caps, caller, ip, locMaxTotal, current, ipCount,
                 res, updVars, handlerVars, ghosts>>
  /\ UNCHANGED notLim

\* maxPerIP := int64(l.maxPerIP.Load())
AcqLoadMaxPerIP(p) ==
  /\ pc[p] = "a_loadMaxPerIP"
  /\ locMaxPerIP' = [locMaxPerIP EXCEPT ![p] = maxPerIP]
  /\ pc' = [pc EXCEPT ![p] = "a_loadTotal"]
  /\ UNCHANGED <<counters, caps, caller, ip, locMaxTotal, current, ipCount,
                 res, updVars, handlerVars, ghosts>>
  /\ UNCHANGED notLim

\* current := l.total.Load(); if current >= maxTotal { return ErrTotalLimitReached }
AcqLoadTotal(p) ==
  /\ pc[p] = "a_loadTotal"
  /\ IF total >= locMaxTotal[p]
       THEN AcquireReturn(p, "ErrTotalLimitReached")
       ELSE /\ current' = [current EXCEPT ![p] = total]
            /\ pc' = [pc EXCEPT ![p] = "a_casTotal"]
            /\ UNCHANGED <<res, locMaxTotal, locMaxPerIP, ipCount, fresh>>
  /\ UNCHANGED <<counters, caps, caller, ip, updVars, handlerVars, incTotal,
                 incIP, nUnpaired>>
  /\ UNCHANGED notLim

\* an atomic add after the check, in place of the compare-and-swap (the
\* TOCTOU window the CAS loop closes)
AcqCasTotalAdd(p) ==
  /\ pc[p] = "a_casTotal"
  /\ total' = total + 1
  /\ incTotal' = [incTotal EXCEPT ![p] = @ + 1]
  /\ pc' = [pc EXCEPT ![p] = "a_getCounter"]
  /\ UNCHANGED <<perIP, caps, caller, ip, locals, res, updVars, handlerVars,
                 incIP, fresh, nUnpaired>>
  /\ UNCHANGED notLim

\* if l.total.CompareAndSwap(current, current+1) { break }
AcqCasTotal(p) ==
  /\ pc[p] = "a_casTotal"
  /\ IF total = current[p]
       THEN /\ total' = current[p] + 1
            /\ incTotal' = [incTotal EXCEPT ![p] = @ + 1]
            /\ pc' = [pc EXCEPT ![p] = "a_getCounter"]
       ELSE /\ pc' = [pc EXCEPT ![p] = "a_loadTotal"]
            /\ UNCHANGED <<total, incTotal>>
  /\ UNCHANGED <<perIP, caps, caller, ip, locals, res, updVars, handlerVars,
                 incIP, fresh, nUnpaired>>
  /\ UNCHANGED notLim

\* counter, exists := l.perIP[ip] under the read lock and, if it does not
\* exist, the double-checked insertion under the write lock.  The map only
\* grows and the insertion is idempotent, so the two critical sections have
\* the effect of one get-or-create at the time of the second.
AcqGetCounter(p) ==
  /\ pc[p] = "a_getCounter"
  /\ perIP' = IF ip[p] \in DOMAIN perIP THEN perIP ELSE perIP @@ (ip[p] :> 0)
  /\ pc' = [pc EXCEPT ![p] = "a_loadIP"]
  /\ UNCHANGED <<total, caps, caller, ip, locals, res, updVars, handlerVars,
                 ghosts>>
  /\ UNCHANGED notLim

\* ipCount := counter.Load(); if ipCount >= maxPerIP { roll back }
AcqLoadIP(p) ==
  /\ pc[p] = "a_loadIP"
  /\ ipCount' = [ipCount EXCEPT ![p] = perIP[ip[p]]]
  /\ pc' = [pc EXCEPT ![p] = IF perIP[ip[p]] >= locMaxPerIP[p]
                               THEN "a_rollback" ELSE "a_casIP"]
  /\ UNCHANGED <<counters, caps, caller, ip, locMaxTotal, locMaxPerIP,
                 current, res, updVars, handlerVars, ghosts>>
  /\ UNCHANGED notLim

\* the per-IP failure path without its rollback of the total counter
AcqRollbackMissing(p) ==
  /\ pc[p] = "a_rollback"
  /\ AcquireReturn(p, "ErrIPLimitReached")
  /\ UNCHANGED <<counters, caps, caller, ip, updVars, handlerVars, incTotal,
                 incIP, nUnpaired>>
  /\ UNCHANGED notLim

\* l.total.Add(-1); return ErrIPLimitReached
AcqRollback(p) ==
  /\ pc[p] = "a_rollback"
  /\ total' = total - 1
  /\ incTotal' = [incTotal EXCEPT ![p] = @ - 1]
  /\ AcquireReturn(p, "ErrIPLimitReached")
  /\ UNCHANGED <<perIP, caps, caller, ip, updVars, handlerVars, incIP,
                 nUnpaired>>
  /\ UNCHANGED notLim

\* if counter.CompareAndSwap(ipCount, ipCount+1) { break }; return nil
AcqCasIP(p) ==
  /\ pc[p] = "a_casIP"
  /\ IF perIP[ip[p]] = ipCount[p]
       THEN /\ perIP' = [perIP EXCEPT ![ip[p]] = ipCount[p] + 1]
            /\ incIP' = [incIP EXCEPT ![p] = @ + 1]
            /\ AcquireReturn(p, "ok")
       ELSE /\ pc' = [pc EXCEPT ![p] = "a_loadIP"]
            /\ UNCHANGED <<perIP, incIP, res, locals, fresh>>
  /\ UNCHANGED <<total, caps, caller, ip, updVars, handlerVars, incTotal,
                 nUnpaired>>
  /\ UNCHANGED notLim

\* a client goroutine that holds a slot calls Release with the IP it acquired
CallRelease(p) ==
  /\ pc[p] = "holding"
  /\ pc' = [pc EXCEPT ![p] = "r_decIP"]
  /\ UNCHANGED <<counters, caps, caller, ip, locals, res, updVars,
                 handlerVars, ghosts>>
  /\ UNCHANGED notLim

\* a client goroutine calls Release(i) for an IP that has no counter,
\* without having acquired it
CallReleaseUnknown(p, i) ==
  /\ pc[p] = "idle"
  /\ i \notin DOMAIN perIP
  /\ nUnpaired < MaxUnpaired
  /\ nUnpaired' = nUnpaired + 1
  /\ ip' = [ip EXCEPT ![p] = i]
  /\ caller' = [caller EXCEPT ![p] = "client"]
  /\ pc' = [pc EXCEPT ![p] = "r_decIP"]
  /\ UNCHANGED <<counters, caps, locals, res, updVars, handlerVars, incTotal,
                 incIP, fresh>>
  /\ UNCHANGED notLim

\* a Release that forgets the per-IP counter
RelDecIPMissing(p) ==
  /\ pc[p] = "r_decIP"
  /\ pc' = [pc EXCEPT ![p] = "r_decTotal"]
  /\ UNCHANGED <<counters, caps, caller, ip, locals, res, updVars,
                 handlerVars, ghosts>>
  /\ UNCHANGED notLim

\* counter, exists := l.perIP[ip] under the read lock;
\* if exists { counter.Add(-1) }
\* (a counter that exists at the lookup exists ever after, so the lookup and
\* the add are one step at the time of the add)
RelDecIP(p) ==
  /\ pc[p] = "r_decIP"
  /\ IF ip[p] \in DOMAIN perIP
       THEN /\ perIP' = [perIP EXCEPT ![ip[p]] = @ - 1]
            /\ incIP' = [incIP EXCEPT ![p] = @ - 1]
       ELSE UNCHANGED <<perIP, incIP>>
  /\ pc' = [pc EXCEPT ![p] = "r_decTotal"]
  /\ UNCHANGED <<total, caps, caller, ip, locals, res, updVars, handlerVars,
                 incTotal, fresh, nUnpaired>>
  /\ UNCHANGED notLim

\* l.total.Add(-1)
RelDecTotal(p) ==
  /\ pc[p] = "r_decTotal"
  /\ total' = total - 1
  /\ incTotal' = [incTotal EXCEPT ![p] = @ - 1]
  /\ pc' = [pc EXCEPT ![p] = AfterRelease(p)]
  /\ UNCHANGED <<perIP, caps, caller, ip, locals, res, updVars, handlerVars,
                 incIP, fresh, nUnpaired>>
  /\ UNCHANGED notLim

\* the steps of Acquire and Release, whoever called them
LimiterStep(p) ==
  \/ AcqLoadMaxTotal(p)
  \/ AcqLoadMaxPerIP(p)
  \/ AcqLoadTotal(p)
  \/ AcqCasTotal(p)
  \/ AcqGetCounter(p)
  \/ AcqLoadIP(p)
  \/ AcqRollback(p)
  \/ AcqCasIP(p)
  \/ RelDecIP(p)
  \/ RelDecTotal(p)

\* the arguments the configuration watcher passes to UpdateLimits: at least 1
\* (validateReloadable); a lower per-IP cap, and both caps lower
UpdateArgs == {<<1, MaxTotal + 1>>, <<1, 1>>}

\* the configuration watcher's callback calls UpdateLimits(a[1], a[2])
UpdCall(a) ==
  /\ upc = "idle"
  /\ updArg' = a
  /\ upc' = "storeMaxPerIP"
  /\ fresh' = [p \in Procs |-> FALSE]
  /\ UNCHANGED <<counters, caps, pc, caller, ip, locals, res, handlerVars,
                 incTotal, incIP, nUnpaired>>
  /\ UNCHANGED notLim

\* l.maxPerIP.Store(int32(maxPerIP))
UpdStoreMaxPerIP ==
  /\ upc = "storeMaxPerIP"
  /\ maxPerIP' = updArg[1]
  /\ upc' = "storeMaxTotal"
  /\ UNCHANGED <<counters, maxTotal, pc, caller, ip, locals, res, updArg,
                 handlerVars, ghosts>>
  /\ UNCHANGED notLim

\* l.maxTotal.Store(int32(maxTotal))
UpdStoreMaxTotal ==
  /\ upc = "storeMaxTotal"
  /\ maxTotal' = updArg[2]
  /\ upc' = "idle"
  /\ updArg' = <<0, 0>>
  /\ UNCHANGED <<counters, maxPerIP, pc, caller, ip, locals, res,
                 handlerVars, ghosts>>
  /\ UNCHANGED notLim

\* clients that acquire and release in pairs
NextLimiter ==
  \E p \in Procs :
    \/ \E i \in AcquireIPs : CallAcquire(p, i)
    \/ CallRelease(p)
    \/ LimiterStep(p)

\* clients of one configured IP and of the unknown one, next to Release calls
\* for an IP that has no counter
NextLimiterUnpaired ==
  \E p \in Procs :
    \/ \E i \in {"ip1", UnknownIP} : CallAcquire(p, i)
    \/ CallRelease(p)
    \/ CallReleaseUnknown(p, UnknownIP)
    \/ LimiterStep(p)

\* clients of one configured IP, next to the configuration watcher
NextLimiterUpd ==
  \/ \E p \in Procs :
       \/ CallAcquire(p, "ip1")
       \/ CallRelease(p)
       \/ LimiterStep(p)
  \/ \E a \in UpdateArgs : UpdCall(a)
  \/ UpdStoreMaxPerIP
  \/ UpdStoreMaxTotal

(***************************************************************************)
(* The history (part_012) and the LRU selector (part_013).                 *)
(*                                                                         *)
(* Time is the integer clock now; an Entry is [IP, Timestamp] with the     *)
(* clock reading at which it was added.  History.hosts is a function from  *)
(* the hosts that have a HostHistory to its entries, oldest first.         *)
(***************************************************************************)
\* math.MaxInt, the initial minUsage of Select (part_013:157); any number
\* above every usage count acts the same
MaxInt == 2147483647

IPSet == {IPs[k] : k \in 1..Len(IPs)}

RECURSIVE HostHistoryGetFilteredNoCutoff(_, _, _, _, _)
\* a GetFiltered that takes the most recent entries whatever their age
HostHistoryGetFilteredNoCutoff(entries, i, cutoff, maxSize, result) ==
  IF i < 1 \/ Len(result) >= maxSize
    THEN result
    ELSE HostHistoryGetFilteredNoCutoff(entries, i - 1, cutoff, maxSize,
           Append(result, entries[i]))

\* HostHistory.GetFiltered: from the most recent entry backwards, the
\* entries younger than the window, until maxSize of them are collected
RECURSIVE HostHistoryGetFiltered(_, _, _, _, _)
HostHistoryGetFiltered(entries, i, cutoff, maxSize, result) ==
  IF i < 1 \/ Len(result) >= maxSize
    THEN result
    ELSE HostHistoryGetFiltered(entries, i - 1, cutoff, maxSize,
           IF entries[i].Timestamp > cutoff
             THEN Append(result, entries[i])
             ELSE result)

\* History.GetFiltered: nil for a host without history
HistoryGetFiltered(hs, host, window, maxSize, t) ==
  IF host \notin DOMAIN hs
    THEN <<>>
    ELSE HostHistoryGetFiltered(hs[host], Len(hs[host]), t - window, maxSize, <<>>)

\* a HostHistory.Cleanup that keeps the entry that lies on the cutoff
HostHistoryCleanupInclusive(entries, window, t) ==
  SelectSeq(entries, LAMBDA e : e.Timestamp >= t - window)

\* HostHistory.Cleanup: keep the entries younger than the window
HostHistoryCleanup(entries, window, t) ==
  SelectSeq(entries, LAMBDA e : e.Timestamp > t - window)

\* History.Cleanup: clean every host, then delete the hosts left empty
HistoryCleanup(hs, window, t) ==
  LET kept == {h \in DOMAIN hs : Len(HostHistoryCleanup(hs[h], window, t)) # 0}
  IN [h \in kept |-> HostHistoryCleanup(hs[h], window, t)]

\* an eviction that takes the first entry of any host that has one
AnyHostWithEntries(hs) == {h \in DOMAIN hs : Len(hs[h]) > 0}

\* evictOldestLocked: the hosts whose first entry is the oldest one; the
\* iteration order of the Go map decides between hosts that tie
OldestHosts(hs) ==
  {h \in DOMAIN hs :
     /\ Len(hs[h]) > 0
     /\ \A g \in DOMAIN hs :
          Len(hs[g]) > 0 => hs[h][1].Timestamp <= hs[g][1].Timestamp}

\* an eviction that leaves the emptied host in History.hosts
EvictFromKeepHost(hs, oldestHost) == [hs EXCEPT ![oldestHost] = Tail(@)]

\* evictOldestLocked: drop the first entry of oldestHost and delete the host
\* when that empties it
EvictFrom(hs, oldestHost) ==
  IF Len(hs[oldestHost]) > 1
    THEN [hs EXCEPT ![oldestHost] = Tail(@)]
    ELSE [h \in DOMAIN hs \ {oldestHost} |-> hs[h]]

\* an Add into one history that every host shares
HostHistoryAddShared(hs, host, i, t) ==
  LET e == [IP |-> i, Timestamp |-> t]
  IN [h \in DOMAIN hs \cup {host} |->
        IF h \in DOMAIN hs THEN Append(hs[h], e) ELSE <<e>>]

\* GetOrCreate(host).Add(ip): append Entry{ip, time.Now()}
HostHistoryAdd(hs, host, i, t) ==
  LET e == [IP |-> i, Timestamp |-> t]
  IN [h \in DOMAIN hs \cup {host} |->
        IF h = host
          THEN (IF host \in DOMAIN hs THEN Append(hs[host], e) ELSE <<e>>)
          ELSE hs[h]]

\* History.Record(host, ip): with a cap configured and reached, evict the
\* oldest entry, then count the new entry; then add it to the host's history
HistoryRecord(host, i) ==
  LET capped == maxTotalEntries > 0
      evict == capped /\ totalEntries >= maxTotalEntries
      victims == IF evict THEN OldestHosts(hosts) ELSE {}
  IN IF victims = {}
       THEN /\ hosts' = HostHistoryAdd(hosts, host, i, now)
            /\ totalEntries' = IF capped THEN totalEntries + 1 ELSE totalEntries
       ELSE \E oldestHost \in victims :
              /\ hosts' = HostHistoryAdd(EvictFrom(hosts, oldestHost), host, i, now)
              /\ totalEntries' = (totalEntries - 1) + 1

\* History.Stats: the entries stored over all hosts
RECURSIVE StoredEntries(_, _)
StoredEntries(hs, S) ==
  IF S = {} THEN 0
  ELSE LET h == CHOOSE x \in S : TRUE
       IN Len(hs[h]) + StoredEntries(hs, S \ {h})

\* Select, part_013:148-153: ctx.usageCount[ip] over the filtered entries
UsageCountZero(entries, i) == 0

UsageCount(entries, i) ==
  Cardinality({k \in 1..Len(entries) : entries[k].IP = i})

\* Select, part_013:148-153: ctx.lastUsed[ip], the latest timestamp of the
\* IP in the filtered entries; the zero time for an IP that has none
LastUsed(entries, i) ==
  LET ts == {entries[k].Timestamp : k \in {k \in 1..Len(entries) : entries[k].IP = i}}
  IN IF ts = {} THEN ZeroTime ELSE CHOOSE t \in ts : \A u \in ts : u <= t

\* a tie-break that never replaces the candidate found first
TieBreakKeepFirst(lastUse, oldestUse) == FALSE

\* Select, part_013:168: lastUse.IsZero() || lastUse.Before(oldestUse)
TieBreak(lastUse, oldestUse) ==
  lastUse = ZeroTime \/ lastUse < oldestUse

\* Select, part_013:160-175: the body of the loop over availableIPs
SelectStep(acc, i, entries) ==
  LET usage == UsageCount(entries, i)
      lastUse == LastUsed(entries, i)
  IN IF usage < acc.minUsage
       THEN [selectedIP |-> i, minUsage |-> usage, oldestUse |-> lastUse]
       ELSE IF usage = acc.minUsage /\ TieBreak(lastUse, acc.oldestUse)
              THEN [acc EXCEPT !.selectedIP = i, !.oldestUse = lastUse]
              ELSE acc

RECURSIVE SelectLoop(_, _, _, _)
SelectLoop(avail, k, entries, acc) ==
  IF k > Len(avail)
    THEN acc
    ELSE SelectLoop(avail, k + 1, entries, SelectStep(acc, avail[k], entries))

\* a loop over the configured IPs instead of the available ones
SelectIPConfigured(avail, entries) ==
  SelectLoop(IPs, 1, entries,
             [selectedIP |-> NoIP, minUsage |-> MaxInt, oldestUse |-> ZeroTime]).selectedIP

\* Select, part_013:155-178: the IP the loop ends with
SelectIP(avail, entries) ==
  SelectLoop(avail, 1, entries,
             [selectedIP |-> NoIP, minUsage |-> MaxInt, oldestUse |-> ZeroTime]).selectedIP

\* a getAvailableIPs without the fallback to all IPs
getAvailableIPsNoFallback(healthy, unlimited) ==
  SelectSeq(IPs, LAMBDA i : i \in healthy /\ i \in unlimited)

\* LRU.getAvailableIPs: the healthy IPs (all of them when none is healthy)
\* that the limiter reports available, in configured order
getAvailableIPs(healthy, unlimited) ==
  LET ips == IF \A k \in 1..Len(IPs) : IPs[k] \notin healthy
               THEN IPs
               ELSE SelectSeq(IPs, LAMBDA i : i \in healthy)
  IN SelectSeq(ips, LAMBDA i : i \in unlimited)

\* the caller holds no Select result
NoResult ==
  /\ bpc' = "idle"
  /\ selHost' = ""
  /\ selUnlimited' = {}
  /\ selAvail' = <<>>
  /\ selected' = NoIP
  /\ selFresh' = FALSE

\* NewHistory(WithMaxTotalEntries(max)), read with window and size by a
\* caller that holds no Select result
NewHistory(window, size, max) ==
  /\ now = 1
  /\ historyWindow = window
  /\ historySize = size
  /\ hosts = [h \in {} |-> <<>>]
  /\ maxTotalEntries = max
  /\ totalEntries = 0
  /\ bpc = "idle"
  /\ selHost = ""
  /\ selUnlimited = {}
  /\ selAvail = <<>>
  /\ selected = NoIP
  /\ selFresh = FALSE
  /\ used = [i \in IPSet |-> 0]
  /\ nReq = 0

\* no goroutine is inside History.Record
NoRecorders ==
  /\ rpc = [p \in Procs |-> "idle"]
  /\ recHost = [p \in Procs |-> ""]
  /\ recIP = [p \in Procs |-> NoIP]
  /\ orphan = [p \in Procs |-> FALSE]
  /\ removed = {}
  /\ evicted = {}

\* NewHealthChecker(cfg): every configured IP starts Healthy with both
\* counts at zero
NewHealthChecker(failureThreshold, successThreshold) ==
  /\ State = [i \in IPSet |-> "Healthy"]
  /\ ConsecutiveFailures = [i \in IPSet |-> 0]
  /\ ConsecutiveSuccesses = [i \in IPSet |-> 0]
  /\ FailureThreshold = failureThreshold
  /\ SuccessThreshold = successThreshold

\* NewLRU(cfg): empty history without a cap on its entries; no goroutine
\* is recording and the health checker has probed nothing yet
InitBalancer(window, size) ==
  /\ NewHistory(window, size, 0)
  /\ NoRecorders
  /\ NewHealthChecker(1, 1)

\* LRU.Select(host)
Select(host, healthy, unlimited) ==
  LET availableIPs == getAvailableIPs(healthy, unlimited)
      entries == HistoryGetFiltered(hosts, host, historyWindow, historySize, now)
  IN /\ bpc' = IF availableIPs = <<>> THEN "error" ELSE "selected"
     /\ selHost' = host
     /\ selUnlimited' = unlimited
     /\ selAvail' = availableIPs
     /\ selected' = IF availableIPs = <<>>
                      THEN NoIP
                      ELSE SelectIP(availableIPs, entries)
     /\ selFresh' = TRUE
     /\ UNCHANGED <<now, lruConfig, historyVars, rotation>>
     /\ UNCHANGED notBal

\* LRU.Record(host, ip) by a caller that holds no Select result
Record(host, i) ==
  /\ StoredEntries(hosts, DOMAIN hosts) < MaxEntries
  /\ HistoryRecord(host, i)
  /\ NoResult
  /\ UNCHANGED <<now, lruConfig, maxTotalEntries, rotation>>
  /\ UNCHANGED notBal

\* time passes
Tick ==
  /\ now < MaxClock
  /\ now' = now + 1
  /\ selFresh' = FALSE
  /\ UNCHANGED <<lruConfig, historyVars, bpc, selHost, selUnlimited,
                 selAvail, selected, rotation>>
  /\ UNCHANGED notBal

\* cleanupLoop: on each tick of its ticker, History.Cleanup(historyWindow)
CleanupTick ==
  /\ hosts' = HistoryCleanup(hosts, historyWindow, now)
  /\ selFresh' = FALSE
  /\ UNCHANGED <<now, lruConfig, maxTotalEntries, totalEntries, bpc, selHost,
                 selUnlimited, selAvail, selected, rotation>>
  /\ UNCHANGED notBal

\* LRU.UpdateHistoryConfig(window, size), with values that pass
\* validateReloadable
UpdateHistoryConfig(window, size) ==
  /\ <<window, size>> # <<historyWindow, historySize>>
  /\ historyWindow' = window
  /\ historySize' = size
  /\ selFresh' = FALSE
  /\ UNCHANGED <<now, historyVars, bpc, selHost, selUnlimited,
                 selAvail, selected, rotation>>
  /\ UNCHANGED notBal

\* the rotation scenario: one caller, one host, every IP healthy and
\* unlimited, Select and then Record of the IP it returned
RotationHost == "a.test"

RotSelect ==
  /\ bpc = "idle"
  /\ nReq < MaxRequests
  /\ Select(RotationHost, IPSet, IPSet)

RotRecord ==
  /\ bpc = "selected"
  /\ HistoryRecord(selHost, selected)
  /\ used' = [used EXCEPT ![selected] = @ + 1]
  /\ nReq' = nReq + 1
  /\ NoResult
  /\ UNCHANGED <<now, lruConfig, maxTotalEntries>>
  /\ UNCHANGED notBal

\* the caller is done with the result of its Select
Discard ==
  /\ bpc \in {"selected", "error"}
  /\ NoResult
  /\ UNCHANGED <<now, lruConfig, historyVars, rotation>>
  /\ UNCHANGED notBal

\* what GetHealthyIPs reports healthy: nothing, all IPs but the first, or
\* the last IP alone
HealthyInputs == {{}, IPSet \ {IPs[1]}, {IPs[Len(IPs)]}}
\* the <<window, size>> configurations the balancer is given
HistoryConfigs == {<<1, 1>>, <<MaxWindow, MaxHistorySize>>}

\* a caller that looks at each Select result before the clock, the cleanup
\* or the configuration moves on
NextBalancer ==
  \/ bpc = "idle" /\ \E h \in Hosts : \E healthy \in HealthyInputs :
       \E unlimited \in SUBSET IPSet : Select(h, healthy, unlimited)
  \/ \E h \in Hosts : \E i \in IPSet : Record(h, i)
  \/ Discard
  \/ bpc = "idle" /\ Tick
  \/ bpc = "idle" /\ CleanupTick
  \/ bpc = "idle" /\ \E c \in HistoryConfigs : UpdateHistoryConfig(c[1], c[2])

NextRotation ==
  \/ RotSelect
  \/ RotRecord
  \/ Tick
  \/ CleanupTick

\* the two copies of a tunnel: client -> target and target -> client
Dirs == {"in", "out"}

\* no request has arrived
NoRequests ==
  /\ reqAuth = [p \in Procs |-> <<>>]
  /\ inHeader = <<>>
  /\ outHeader = <<>>

\* no tunnel is open
NoTunnel ==
  /\ idleTimeout = 1
  /\ clock = 0
  /\ tpc = [d \in Dirs |-> "done"]
  /\ copyTotal = [d \in Dirs |-> 0]
  /\ nRead = [d \in Dirs |-> 0]
  /\ readErr = [d \in Dirs |-> "nil"]
  /\ deadline = [d \in Dirs |-> 0]
  /\ inOut = [d \in Dirs |-> 0]
  /\ bytes = <<>>
  /\ wrote = [d \in Dirs |-> 0]
  /\ lastFlow = 0
  /\ endOf = [d \in Dirs |-> "none"]

\* the value of a result that no call has produced yet
Unset == <<"unset">>

\* no remote address is being parsed
NoAddr ==
  /\ RemoteAddr = <<>>
  /\ clientIP = Unset

\* NewCircuitBreaker(cfg): no IP has a state
NewCircuitBreaker(cfg) ==
  /\ config = cfg
  /\ exists = FALSE
  /\ state = "closed"
  /\ failures = 0
  /\ successes = 0
  /\ lastFailure = ZeroTime
  /\ cbNow = 1
  /\ lastCall = <<"none", TRUE>>
  /\ streak = [kind |-> "none", n |-> 0]

\* the goroutines of a HealthChecker that was made and not started
NotStarted ==
  /\ loop = "none"
  /\ probe = [i \in IPSet |-> "idle"]
  /\ stopCh = "open"
  /\ stopper = "idle"
  /\ ticks = 0

\* the client connections of the proxy
MaxConns == 2
Conns == 1..MaxConns

\* main has started the balancer, the health checker and the servers and
\* waits for a signal
Serving ==
  /\ mainPc = "signal"
  /\ ready = TRUE
  /\ listening = TRUE
  /\ conns = [c \in Conns |-> "closed"]
  /\ transports = "kept"
  /\ cleanupLoop = "running"
  /\ checkLoop = "running"
  /\ waited = 0
  /\ done = {}
  /\ late = FALSE

\* the locks: h.mu of the History and the mu of the HostHistory of each host
Locks == {"mu"} \cup Hosts

\* no goroutine
NoProc == "none"

\* NewHistory: no host, every lock free, no call in progress
Unlocked(c) ==
  /\ todo = [p \in Procs |-> <<>>]
  /\ lockW = [l \in Locks |-> NoProc]
  /\ lockR = [l \in Locks |-> {}]
  /\ lockQ = [l \in Locks |-> {}]
  /\ present = {}
  /\ hasCap = c

\* nothing of the rest of the process is running
NoExt ==
  /\ NoAddr
  /\ NotStarted
  /\ Serving
  /\ Unlocked(FALSE)
  /\ NewCircuitBreaker([FailureThreshold |-> 1, SuccessThreshold |-> 1,
                        Timeout |-> 1])

\* no request is being served and no tunnel is open
NoTraffic == NoRequests /\ NoTunnel /\ NoExt

InitLim ==
  /\ InitLimiter(MaxPerIP, MaxTotal, LimiterIPs)
  /\ NoTraffic
  /\ InitBalancer(1, 1)

\* a limiter with caps the configuration watcher can lower
InitLimUpd ==
  /\ InitLimiter(MaxPerIP + 1, MaxTotal + 1, LimiterIPs)
  /\ NoTraffic
  /\ InitBalancer(1, 1)

SpecLimiter == InitLim /\ [][NextLimiter]_vars

SpecLimiterUnpaired == InitLim /\ [][NextLimiterUnpaired]_vars

SpecLimiterUpd == InitLimUpd /\ [][NextLimiterUpd]_vars

\* the balancer as NewLRU leaves it, with a history configuration that
\* passes Config.Validate
InitBal ==
  /\ InitLimiter(MaxPerIP, MaxTotal, LimiterIPs)
  /\ NoTraffic
  /\ \E c \in HistoryConfigs : InitBalancer(c[1], c[2])

\* the same, with history sizes that hold a whole rotation scenario too
InitRotation ==
  /\ InitLimiter(MaxPerIP, MaxTotal, LimiterIPs)
  /\ NoTraffic
  /\ \E w \in 1..MaxWindow :
       \E s \in (1..MaxHistorySize) \cup {MaxRequests} : InitBalancer(w, s)

SpecBalancer == InitBal /\ [][NextBalancer]_vars

SpecRotation == InitRotation /\ [][NextRotation]_vars

(***************************************************************************)
(* History.Record, goroutine by goroutine (part_012:135-149).              *)
(*                                                                         *)
(* Record has three critical sections: the count under h.mu (with the      *)
(* eviction), GetOrCreate under h.mu, and HostHistory.Add under the        *)
(* host's own mutex.  Other goroutines run between them.  The *HostHistory *)
(* that GetOrCreate returned stays valid for Add after the host was        *)
(* deleted from History.hosts, but the entry added to it is then not in    *)
(* the history any more: orphan[p] records that.                           *)
(*                                                                         *)
(* evictOldestLocked and Cleanup hold h.mu from start to end; an Add that  *)
(* runs inside one of them has the effect of an Add before it (the entry   *)
(* is appended, so entries[0] and the expired entries stay what they are)  *)
(* or after it (the host is deleted with the entry in it).                 *)
(***************************************************************************)

\* the goroutines that call History.Record
Recorders == {"g1", "g2"}

\* the goroutines between the count and the Add of their Record
Pending == {p \in Recorders : rpc[p] # "idle"}

\* the *HostHistory of the hosts in gone are no longer in History.hosts
Orphaned(gone) ==
  [p \in Procs |-> orphan[p] \/ (rpc[p] = "add" /\ recHost[p] \in gone)]

\* Record, part_012:137-145: with a cap configured, under h.mu, evict the
\* oldest entry if the count has reached the cap, then count the new entry
RecCount(p, host, i) ==
  /\ rpc[p] = "idle"
  /\ StoredEntries(hosts, DOMAIN hosts) + Cardinality(Pending) < MaxStored
  /\ totalEntries < MaxCounted \/ OldestHosts(hosts) # {}
  /\ rpc' = [rpc EXCEPT ![p] = "getOrCreate"]
  /\ recHost' = [recHost EXCEPT ![p] = host]
  /\ recIP' = [recIP EXCEPT ![p] = i]
  /\ LET capped == maxTotalEntries > 0
         evict == capped /\ totalEntries >= maxTotalEntries
         victims == IF evict THEN OldestHosts(hosts) ELSE {}
     IN IF victims = {}
          THEN /\ totalEntries' = IF capped THEN totalEntries + 1 ELSE totalEntries
               /\ removed' = {}
               /\ evicted' = {}
               /\ UNCHANGED <<hosts, orphan>>
          ELSE \E oldestHost \in victims :
                 LET gone == DOMAIN hosts \ DOMAIN EvictFrom(hosts, oldestHost)
                 IN /\ hosts' = EvictFrom(hosts, oldestHost)
                    /\ totalEntries' = (totalEntries - 1) + 1
                    /\ orphan' = Orphaned(gone)
                    /\ removed' = gone
                    /\ evicted' = {[host |-> oldestHost, entry |-> hosts[oldestHost][1]]}
  /\ UNCHANGED <<now, lruConfig, maxTotalEntries, selVars, rotation>>
  /\ UNCHANGED <<limVars, healthVars, ioVars>>

\* Record, part_012:147: hh := h.GetOrCreate(host), which puts an empty
\* HostHistory into History.hosts when the host has none
RecGetOrCreate(p) ==
  /\ rpc[p] = "getOrCreate"
  /\ rpc' = [rpc EXCEPT ![p] = "add"]
  /\ orphan' = [orphan EXCEPT ![p] = FALSE]
  /\ hosts' = IF recHost[p] \in DOMAIN hosts
                THEN hosts
                ELSE [h \in DOMAIN hosts \cup {recHost[p]} |->
                        IF h = recHost[p] THEN <<>> ELSE hosts[h]]
  /\ UNCHANGED <<now, lruConfig, maxTotalEntries, totalEntries, selVars, rotation>>
  /\ removed' = {}
  /\ evicted' = {}
  /\ UNCHANGED <<recHost, recIP, limVars, healthVars, ioVars>>

\* Record, part_012:148: hh.Add(ip)
RecAdd(p) ==
  /\ rpc[p] = "add"
  /\ rpc' = [rpc EXCEPT ![p] = "idle"]
  /\ orphan' = [orphan EXCEPT ![p] = FALSE]
  /\ hosts' = IF orphan[p]
                THEN hosts
                ELSE HostHistoryAdd(hosts, recHost[p], recIP[p], now)
  /\ recHost' = [recHost EXCEPT ![p] = ""]
  /\ recIP' = [recIP EXCEPT ![p] = NoIP]
  /\ UNCHANGED <<now, lruConfig, maxTotalEntries, totalEntries, selVars, rotation>>
  /\ removed' = {}
  /\ evicted' = {}
  /\ UNCHANGED <<limVars, healthVars, ioVars>>

\* History.Cleanup(window), part_012:201-220, called while goroutines record
HistCleanup ==
  LET gone == DOMAIN hosts \ DOMAIN HistoryCleanup(hosts, historyWindow, now)
  IN /\ hosts' = HistoryCleanup(hosts, historyWindow, now)
     /\ orphan' = Orphaned(gone)
     /\ removed' = gone
     /\ evicted' = {}
     /\ UNCHANGED <<now, lruConfig, maxTotalEntries, totalEntries, selVars, rotation>>
     /\ UNCHANGED <<rpc, recHost, recIP, limVars, healthVars, ioVars>>

\* the IPs that are recorded
RecordIPs == {IPs[1], IPs[2]}

NextHistory ==
  \/ \E p \in Recorders : \E h \in Hosts : \E i \in RecordIPs : RecCount(p, h, i)
  \/ \E p \in Recorders : RecGetOrCreate(p)
  \/ \E p \in Recorders : RecAdd(p)
  \/ HistCleanup
  \/ Tick

\* a History with or without a cap, as the tests of part_009 build it
InitHistory ==
  /\ InitLimiter(MaxPerIP, MaxTotal, LimiterIPs)
  /\ NoTraffic
  /\ \E max \in 0..MaxCap : NewHistory(1, MaxHistorySize, max)
  /\ NoRecorders
  /\ NewHealthChecker(1, 1)

SpecHistory == InitHistory /\ [][NextHistory]_vars

(***************************************************************************)
(* The health checker (internal/health) and the selection over its result. *)
(*                                                                         *)
(* checkAll probes every IP once per tick and waits for all the probes     *)
(* before the next tick, so the probes of one IP follow each other; each   *)
(* RecordSuccess / RecordFailure runs under the mutex of its IPStatus.     *)
(***************************************************************************)

\* the IPStatus of an IP
StatusOf(i) ==
  [State |-> State[i],
   ConsecutiveFailures |-> ConsecutiveFailures[i],
   ConsecutiveSuccesses |-> ConsecutiveSuccesses[i]]

\* a RecordSuccess that takes an Unhealthy IP straight to Healthy when the
\* threshold allows it
RecordSuccessDirect(s, successThreshold) ==
  [State |-> IF s.State # "Healthy" /\ s.ConsecutiveSuccesses + 1 < successThreshold
               THEN "Recovering"
               ELSE "Healthy",
   ConsecutiveFailures |-> 0,
   ConsecutiveSuccesses |-> s.ConsecutiveSuccesses + 1]

\* IPStatus.RecordSuccess(successThreshold), status.go:70-96
RecordSuccess(s, successThreshold) ==
  LET n == s.ConsecutiveSuccesses + 1
  IN CASE s.State = "Unhealthy" ->
            [State |-> "Recovering", ConsecutiveFailures |-> 0,
             ConsecutiveSuccesses |-> 1]
       [] s.State = "Recovering" ->
            [State |-> IF n >= successThreshold THEN "Healthy" ELSE "Recovering",
             ConsecutiveFailures |-> 0, ConsecutiveSuccesses |-> n]
       [] s.State = "Healthy" ->
            [State |-> "Healthy", ConsecutiveFailures |-> 0,
             ConsecutiveSuccesses |-> n]

\* a RecordFailure that gives up a Healthy IP at its first failure
RecordFailureAtOnce(s, failureThreshold) ==
  [State |-> "Unhealthy",
   ConsecutiveFailures |-> s.ConsecutiveFailures + 1,
   ConsecutiveSuccesses |-> 0]

\* IPStatus.RecordFailure(err, failureThreshold), status.go:100-125
RecordFailure(s, failureThreshold) ==
  LET n == s.ConsecutiveFailures + 1
  IN CASE s.State = "Healthy" ->
            [State |-> IF n >= failureThreshold THEN "Unhealthy" ELSE "Healthy",
             ConsecutiveFailures |-> n, ConsecutiveSuccesses |-> 0]
       [] s.State = "Recovering" ->
            [State |-> "Unhealthy", ConsecutiveFailures |-> n,
             ConsecutiveSuccesses |-> 0]
       [] s.State = "Unhealthy" ->
            [State |-> "Unhealthy", ConsecutiveFailures |-> n,
             ConsecutiveSuccesses |-> 0]

\* checker_tcp.go:236-270: the outcome o of the probe of IP i goes into its
\* IPStatus
Probed(i, o) ==
  LET s == IF o = "ok"
             THEN RecordSuccess(StatusOf(i), SuccessThreshold)
             ELSE RecordFailure(StatusOf(i), FailureThreshold)
  IN /\ State' = [State EXCEPT ![i] = s.State]
     /\ ConsecutiveFailures' = [ConsecutiveFailures EXCEPT ![i] = s.ConsecutiveFailures]
     /\ ConsecutiveSuccesses' = [ConsecutiveSuccesses EXCEPT ![i] = s.ConsecutiveSuccesses]

\* checkIP(ip), checker_tcp.go:216-271: probe the IP and record the outcome
checkIP(i, o) ==
  /\ IF o = "ok"
       THEN ConsecutiveSuccesses[i] < MaxCount
       ELSE ConsecutiveFailures[i] < MaxCount
  /\ Probed(i, o)
  /\ UNCHANGED <<thresholds, recVars, limVars, balVars, ioVars>>

\* every IP is healthy: what GetHealthyIPs would report without any failed
\* probe
GetHealthyIPsAll == IPSet

\* HealthChecker.GetHealthyIPs(ips), checker_tcp.go:140-158; every
\* configured IP has a status
GetHealthyIPs == {i \in IPSet : State[i] = "Healthy"}

\* LRU.Select(host) of a balancer with this health checker
HealthSelect(host, unlimited) == Select(host, GetHealthyIPs, unlimited)

\* the outcomes of a probe
ProbeOutcomes == {"ok", "error"}

NextHealth ==
  \/ bpc = "idle" /\ \E i \in IPSet : \E o \in ProbeOutcomes : checkIP(i, o)
  \/ bpc = "idle" /\ \E h \in {RotationHost} : \E unlimited \in SUBSET IPSet :
       HealthSelect(h, unlimited)
  \/ Discard
  \/ /\ bpc = "idle"
     /\ StoredEntries(hosts, DOMAIN hosts) < MaxHealthRecords
     /\ \E i \in RecordIPs : Record(RotationHost, i)

\* a balancer with a health checker whose thresholds are at least one
InitHealth ==
  /\ InitLimiter(MaxPerIP, MaxTotal, LimiterIPs)
  /\ NoTraffic
  /\ NewHistory(MaxWindow, MaxHistorySize, 0)
  /\ NoRecorders
  /\ \E ft \in 1..MaxThreshold : \E st \in 1..MaxThreshold : NewHealthChecker(ft, st)

SpecHealth == InitHealth /\ [][NextHealth]_vars

(***************************************************************************)
(* Request handlers: ConnectHandler.ServeHTTP and Handler.ServeHTTP        *)
(*                                                                         *)
(* A handler selects an IP for the request's host with LRU.Select, whose   *)
(* candidates are the healthy IPs that the limiter reports available,      *)
(* acquires a slot on it, defers the release, records the use in the       *)
(* history and then talks to the upstream and to the client.               *)
(***************************************************************************)
\* requests that have recorded or may still record a use, at most
MaxProxyRecords == 2

\* Limiter.IsIPAvailable(i)
IsIPAvailable(i) ==
  IF i \notin DOMAIN perIP THEN TRUE ELSE perIP[i] < maxPerIP

\* Limiter.GetAvailableIPs(ips), as a set
GetAvailableIPs(ips) == {i \in ips : IsIPAvailable(i)}

\* the terminations of the upstream and client I/O the handlers distinguish
Outcomes == {"ok", "error"}

\* the handlers that are past authentication and have not yet reached
\* balancer.Record or returned before it
BeforeRecord ==
  {p \in Procs : caller[p] = "handler" /\
     pc[p] \in {"h_select", "a_loadMaxTotal", "a_loadMaxPerIP", "a_loadTotal",
                "a_casTotal", "a_getCounter", "a_loadIP", "a_casIP",
                "a_rollback", "h_acquired"}}

\* cfg.Auth of the server, "u:p", as its characters
ConfigAuth == <<"u", ":", "p">>

\* base64.StdEncoding.DecodeString on the payloads that the requests carry:
\* the characters of "u:p", "u:x", "v:p" and "up"; a payload outside the
\* table is not valid base64
Base64Decode ==
  [x \in {"dTpw", "dTp4", "djpw", "dXA="} |->
     CASE x = "dTpw" -> <<"u", ":", "p">>
       [] x = "dTp4" -> <<"u", ":", "x">>
       [] x = "djpw" -> <<"v", ":", "p">>
       [] x = "dXA=" -> <<"u", "p">>]

\* strings.Index(str, c) + 1: the first position of c in str, 0 if none
Index(str, c) ==
  IF \E i \in 1..Len(str) : str[i] = c
    THEN CHOOSE i \in 1..Len(str) :
           str[i] = c /\ \A j \in 1..(i - 1) : str[j] # c
    ELSE 0

\* Config.GetAuthCredentials(): strings.SplitN(c.Auth, ":", 2)
GetAuthCredentials(auth) ==
  IF auth = <<>> \/ Index(auth, ":") = 0
    THEN [username |-> <<>>, password |-> <<>>, ok |-> FALSE]
    ELSE [username |-> SubSeq(auth, 1, Index(auth, ":") - 1),
          password |-> SubSeq(auth, Index(auth, ":") + 1, Len(auth)),
          ok |-> TRUE]

\* the Proxy-Authorization headers of the requests: none, or a scheme
\* prefix and what follows it
AuthHeaders ==
  {<<>>, <<"Bearer ", "dTpw">>, <<"basic ", "dTpw">>, <<"Basic ", "!!!!">>,
   <<"Basic ", "dXA=">>, <<"Basic ", "djpw">>, <<"Basic ", "dTp4">>,
   <<"Basic ", "dTpw">>}

\* the headers of the clients that send no credentials or the right ones
ProxyHeaders == {<<>>, <<"Basic ", "dTpw">>}

\* an authenticate that compares the user name only
authenticateUserOnly(cfgAuth, header) ==
  IF cfgAuth = <<>> \/ ~GetAuthCredentials(cfgAuth).ok
    THEN TRUE
    ELSE IF header = <<>> THEN FALSE
    ELSE IF header[1] # "Basic " THEN FALSE
    ELSE IF header[2] \notin DOMAIN Base64Decode THEN FALSE
    ELSE LET credentials == Base64Decode[header[2]]
             colonIdx == Index(credentials, ":")
         IN IF colonIdx = 0
              THEN FALSE
              ELSE SubSeq(credentials, 1, colonIdx - 1)
                     = GetAuthCredentials(cfgAuth).username

\* Server.authenticate(w, r): TRUE without configured credentials;
\* otherwise the header must be there, start with "Basic ", decode, hold a
\* colon, and carry the configured user name and password
authenticate(cfgAuth, header) ==
  IF cfgAuth = <<>> \/ ~GetAuthCredentials(cfgAuth).ok
    THEN TRUE
    ELSE IF header = <<>> THEN FALSE
    ELSE IF header[1] # "Basic " THEN FALSE
    ELSE IF header[2] \notin DOMAIN Base64Decode THEN FALSE
    ELSE LET credentials == Base64Decode[header[2]]
             colonIdx == Index(credentials, ":")
         IN IF colonIdx = 0
              THEN FALSE
              ELSE /\ SubSeq(credentials, 1, colonIdx - 1)
                        = GetAuthCredentials(cfgAuth).username
                   /\ SubSeq(credentials, colonIdx + 1, Len(credentials))
                        = GetAuthCredentials(cfgAuth).password

\* a request for host arrives at a goroutine of the server with the
\* Proxy-Authorization header auth: ServeHTTP returns after the 407 of
\* authenticate, or goes on to select an IP
HStart(p, k, host, auth) ==
  /\ pc[p] \in {"idle", "h_done"}
  /\ StoredEntries(hosts, DOMAIN hosts) + Cardinality(BeforeRecord) < MaxProxyRecords
  /\ reqAuth' = [reqAuth EXCEPT ![p] = auth]
  /\ IF authenticate(ConfigAuth, auth)
       THEN /\ pc' = [pc EXCEPT ![p] = "h_select"]
            /\ exitPath' = [exitPath EXCEPT ![p] = "none"]
       ELSE /\ pc' = [pc EXCEPT ![p] = "h_return"]
            /\ exitPath' = [exitPath EXCEPT ![p] = "auth_required"]
  /\ caller' = [caller EXCEPT ![p] = "handler"]
  /\ kind' = [kind EXCEPT ![p] = k]
  /\ reqHost' = [reqHost EXCEPT ![p] = host]
  /\ deferred' = [deferred EXCEPT ![p] = FALSE]
  /\ nRel' = [nRel EXCEPT ![p] = 0]
  /\ res' = [res EXCEPT ![p] = "none"]
  /\ UNCHANGED <<counters, caps, ip, locals, updVars, ghosts>>
  /\ UNCHANGED <<balVars, recVars, healthVars, headerVars, tunnelVars, extVars>>

\* ip, err := h.server.selectIP(host), that is balancer.Select(host): 503
\* when there is no candidate, otherwise the handler goes on to
\* limiter.Acquire(ip)
HSelect(p, healths) ==
  /\ pc[p] = "h_select"
  /\ \E healthy \in healths :
       LET availableIPs == getAvailableIPs(healthy, GetAvailableIPs(IPSet))
           entries == HistoryGetFiltered(hosts, reqHost[p], historyWindow,
                                         historySize, now)
       IN IF availableIPs = <<>>
            THEN /\ exitPath' = [exitPath EXCEPT ![p] = "no_ips"]
                 /\ pc' = [pc EXCEPT ![p] = "h_return"]
                 /\ UNCHANGED <<ip, res, fresh>>
            ELSE /\ EnterAcquire(p, SelectIP(availableIPs, entries))
                 /\ UNCHANGED exitPath
  /\ UNCHANGED <<counters, caps, caller, locals, updVars, kind, reqHost,
                 deferred, nRel, incTotal, incIP, nUnpaired>>
  /\ UNCHANGED notLim

\* if err := h.server.limiter.Acquire(ip); err != nil { 503; return }
HLimit(p) ==
  /\ pc[p] = "h_limit"
  /\ exitPath' = [exitPath EXCEPT ![p] = "limit"]
  /\ pc' = [pc EXCEPT ![p] = "h_return"]
  /\ UNCHANGED <<counters, caps, caller, ip, locals, res, updVars, kind,
                 reqHost, deferred, nRel, ghosts>>
  /\ UNCHANGED notLim

\* a handler that forgets to defer the release
HAcquiredNoDefer(p) ==
  /\ pc[p] = "h_acquired"
  /\ HistoryRecord(reqHost[p], ip[p])
  /\ pc' = [pc EXCEPT ![p] = IF kind[p] = "connect" THEN "c_dial" ELSE "f_roundTrip"]
  /\ UNCHANGED <<counters, caps, caller, ip, locals, res, updVars, kind,
                 reqHost, deferred, exitPath, nRel, ghosts>>
  /\ UNCHANGED <<now, lruConfig, maxTotalEntries, selVars, rotation>>
  /\ UNCHANGED <<recVars, healthVars, ioVars>>

\* defer h.server.limiter.Release(ip); ...; h.server.balancer.Record(host, ip)
HAcquired(p) ==
  /\ pc[p] = "h_acquired"
  /\ deferred' = [deferred EXCEPT ![p] = TRUE]
  /\ HistoryRecord(reqHost[p], ip[p])
  /\ pc' = [pc EXCEPT ![p] = IF kind[p] = "connect" THEN "c_dial" ELSE "f_roundTrip"]
  /\ UNCHANGED <<counters, caps, caller, ip, locals, res, updVars, kind,
                 reqHost, exitPath, nRel, ghosts>>
  /\ UNCHANGED <<now, lruConfig, maxTotalEntries, selVars, rotation>>
  /\ UNCHANGED <<recVars, healthVars, ioVars>>

\* the handler moves from `from` to `to`, or returns through `path`
HStage(p, from, to, path, o) ==
  /\ pc[p] = from
  /\ IF o = "ok"
       THEN /\ pc' = [pc EXCEPT ![p] = to]
            /\ UNCHANGED exitPath
       ELSE /\ pc' = [pc EXCEPT ![p] = "h_return"]
            /\ exitPath' = [exitPath EXCEPT ![p] = path]
  /\ UNCHANGED <<counters, caps, caller, ip, locals, res, updVars, kind,
                 reqHost, deferred, nRel, ghosts>>
  /\ UNCHANGED notLim

\* a Dial whose failure is answered with 502 without returning
CDialNoReturn(p, o) ==
  /\ pc[p] = "c_dial"
  /\ pc' = [pc EXCEPT ![p] = "c_hijack"]
  /\ exitPath' = [exitPath EXCEPT ![p] = IF o = "ok" THEN @ ELSE "dial_failed"]
  /\ UNCHANGED <<counters, caps, caller, ip, locals, res, updVars, kind,
                 reqHost, deferred, nRel, ghosts>>
  /\ UNCHANGED notLim

\* targetConn, err := dialer.Dial("tcp", host): 502 and return on failure
CDial(p, o) == HStage(p, "c_dial", "c_hijack", "dial_failed", o)

\* w.(http.Hijacker) and hijacker.Hijack(): 500 and return when unsupported
\* or failing
CHijack(p, o) ==
  \/ HStage(p, "c_hijack", "c_write200", "hijack_failed", o)
  \/ /\ o = "error"
     /\ HStage(p, "c_hijack", "c_write200", "hijack_unsupported", o)

\* clientConn.Write("HTTP/1.1 200 Connection Established\r\n\r\n")
CWrite200(p, o) == HStage(p, "c_write200", "c_tunnel", "write_failed", o)

\* h.tunnel(clientConn, targetConn, idleTimeout) returns (EOF, error, idle
\* timeout or client disconnect) and ServeHTTP reaches its end
CTunnel(p) == HStage(p, "c_tunnel", "h_return", "tunnel_end", "error")

\* resp, err := transport.RoundTrip(outReq): 502 and return on failure
FRoundTrip(p, o) == HStage(p, "f_roundTrip", "f_copy", "roundtrip_failed", o)

\* io.Copy(w, resp.Body), failing (client gone, upstream reset) or not;
\* ServeHTTP reaches its end either way
FCopy(p, o) ==
  \/ /\ o = "ok"
     /\ HStage(p, "f_copy", "h_return", "forwarded", "error")
  \/ /\ o = "error"
     /\ HStage(p, "f_copy", "h_return", "copy_failed", "error")

\* ServeHTTP returns: the deferred Release runs if it was deferred
HReturn(p) ==
  /\ pc[p] = "h_return"
  /\ IF deferred[p]
       THEN /\ pc' = [pc EXCEPT ![p] = "r_decIP"]
            /\ nRel' = [nRel EXCEPT ![p] = @ + 1]
            /\ deferred' = [deferred EXCEPT ![p] = FALSE]
       ELSE /\ pc' = [pc EXCEPT ![p] = "h_done"]
            /\ UNCHANGED <<nRel, deferred>>
  /\ UNCHANGED <<counters, caps, caller, ip, locals, res, updVars, kind,
                 reqHost, exitPath, ghosts>>
  /\ UNCHANGED notLim

\* the status and the body of the response that ServeHTTP sends through w
\* on each of its paths; status 0 where it sends none, -1 where it relays
\* the status and the body of the upstream
Response(k, path) ==
  CASE path = "auth_required" ->
         [status |-> 407, body |-> "Proxy Authentication Required"]
    [] path = "no_ips" ->
         [status |-> 503, body |-> "No available outbound IPs"]
    [] path = "limit" ->
         [status |-> 503, body |-> "Connection limit reached"]
    [] path = "dial_failed" ->
         [status |-> 502, body |-> "Failed to connect to target"]
    [] path = "roundtrip_failed" ->
         [status |-> 502, body |-> "Failed to connect to upstream"]
    [] path = "hijack_unsupported" ->
         [status |-> 500, body |-> "Hijacking not supported"]
    [] path = "hijack_failed" ->
         [status |-> 500, body |-> "Failed to hijack connection"]
    [] path = "tunnel_end" ->
         [status |-> 200, body |-> ""]
    [] path \in {"forwarded", "copy_failed"} ->
         [status |-> -1, body |-> "upstream"]
    [] OTHER ->
         [status |-> 0, body |-> ""]

\* the steps of a request handler, for requests to the hosts hs that carry
\* the Proxy-Authorization headers auths
HandlerStep(p, hs, auths, healths) ==
  \/ \E k \in {"connect", "forward"} : \E host \in hs :
       \E auth \in auths : HStart(p, k, host, auth)
  \/ HSelect(p, healths)
  \/ HLimit(p)
  \/ HAcquired(p)
  \/ \E o \in Outcomes : CDial(p, o)
  \/ \E o \in Outcomes : CHijack(p, o)
  \/ \E o \in Outcomes : CWrite200(p, o)
  \/ CTunnel(p)
  \/ \E o \in Outcomes : FRoundTrip(p, o)
  \/ \E o \in Outcomes : FCopy(p, o)
  \/ HReturn(p)

\* the goroutines that serve requests
HandlerProcs == {"g1", "g2"}

\* the proxy serving requests
NextProxy ==
  \E p \in HandlerProcs :
    \/ HandlerStep(p, Hosts, ProxyHeaders, HealthyInputs)
    \/ LimiterStep(p)

\* the proxy serving requests to one host with every kind of
\* Proxy-Authorization header
NextAuth ==
  \E p \in HandlerProcs :
    \/ HandlerStep(p, {RotationHost}, AuthHeaders, HealthyInputs)
    \/ LimiterStep(p)

\* main: limiter.New and balancer.New are given the same cfg.IPs
InitProxy ==
  /\ InitLimiter(MaxPerIP, MaxTotal, IPSet)
  /\ NoTraffic
  /\ InitBalancer(MaxWindow, MaxHistorySize)

SpecProxy == InitProxy /\ [][NextProxy]_vars

SpecAuth == InitProxy /\ [][NextAuth]_vars

\* the proxy serving requests while the health checker reports every
\* configured IP healthy
NextAllHealthy ==
  \E p \in HandlerProcs :
    \/ HandlerStep(p, Hosts, ProxyHeaders, {IPSet})
    \/ LimiterStep(p)

SpecAllHealthy == InitProxy /\ [][NextAllHealthy]_vars

(***************************************************************************)
(* Observers of the limiter                                                *)
(***************************************************************************)

RECURSIVE SumOver(_, _)
\* the sum of f[p] for p in S
SumOver(f, S) ==
  IF S = {} THEN 0
  ELSE LET p == CHOOSE q \in S : TRUE IN f[p] + SumOver(f, S \ {p})

\* the sum of the per-IP counters (limiter.go:169 Stats)
SumPerIP == SumOver(perIP, DOMAIN perIP)

\* no goroutine is inside Acquire or Release
Quiescent == \A p \in Procs : pc[p] \in {"idle", "holding"}

\* what the goroutines together have added to the total counter and to the
\* counter of IP i
GhostsConsistent ==
  /\ total = SumOver(incTotal, Procs)
  /\ \A i \in DOMAIN perIP : perIP[i] = SumOver(incIP, {p \in Procs : ip[p] = i})

(***************************************************************************)
(* Claims about the limiter and the handlers                               *)
(***************************************************************************)

\* C1: in every interleaving of concurrent Acquire and paired Release calls,
\* at every instant, each per-IP counter is at most max_per_ip and the total
\* counter is at most max_total.
C1_LimitsNeverExceeded ==
  /\ total <= maxTotal
  /\ \A i \in DOMAIN perIP : perIP[i] <= maxPerIP

\* both caps are reached while a goroutine is about to lose the CAS on total
C1_Witness ==
  /\ total = maxTotal
  /\ \E i \in DOMAIN perIP : perIP[i] = maxPerIP
  /\ \E p \in Procs : pc[p] = "a_casTotal" /\ current[p] # total
  /\ \E p \in Procs : pc[p] = "a_rollback"

\* C2: after any sequence of Acquire and Release calls, whenever none of
\* them is in progress, the total counter is the sum of the per-IP counters.
C2_QuiescentTotalIsSum == Quiescent => total = SumPerIP

\* C3: a request that acquired a slot releases it exactly once on whichever
\* path its handler returns, and a request that acquired none releases none;
\* a finished request contributes zero to the total and per-IP counters.
C3_ReleasedExactlyOnce ==
  /\ GhostsConsistent
  /\ \A p \in HandlerProcs :
       /\ nRel[p] <= 1
       /\ pc[p] = "h_done" =>
            /\ nRel[p] = (IF res[p] = "ok" THEN 1 ELSE 0)
            /\ incTotal[p] = 0
            /\ incIP[p] = 0
  /\ (\A p \in HandlerProcs : pc[p] = "h_done")
       => (total = 0 /\ \A i \in DOMAIN perIP : perIP[i] = 0)

\* two requests have finished, a CONNECT whose upstream dial failed and a
\* forward whose body copy failed, each after acquiring a slot
C3_Witness ==
  /\ pc["g1"] = "h_done" /\ res["g1"] = "ok" /\ exitPath["g1"] = "dial_failed"
  /\ pc["g2"] = "h_done" /\ res["g2"] = "ok" /\ exitPath["g2"] = "copy_failed"
  /\ nRel["g1"] = 1 /\ nRel["g2"] = 1

\* C4: an Acquire that returned IpLimitReached or TotalLimitReached has
\* added nothing to the total counter and nothing to the per-IP counter
\* (the counters being what the goroutines have added to them).
C4_FailedAcquireLeavesCounters ==
  /\ GhostsConsistent
  /\ \A p \in Procs :
       (pc[p] \in {"idle", "h_limit"}
          /\ res[p] \in {"ErrIPLimitReached", "ErrTotalLimitReached"})
       => (incTotal[p] = 0 /\ incIP[p] = 0)

\* one goroutine failed on the per-IP cap, another on the total cap, while a
\* slot is held
C4_Witness ==
  /\ \E p \in Procs : pc[p] = "idle" /\ res[p] = "ErrIPLimitReached"
  /\ \E p \in Procs : pc[p] = "idle" /\ res[p] = "ErrTotalLimitReached"
  /\ \E p \in Procs : pc[p] = "holding"
  /\ total = 1

\* C5: once every successful Acquire has been followed by its Release, in
\* whatever interleaving and with failed Acquires in between, the total
\* counter and every per-IP counter are zero.
C5_CountersReturnToZero ==
  (\A p \in Procs : pc[p] = "idle")
    => (total = 0 /\ \A i \in DOMAIN perIP : perIP[i] = 0)

\* everything released, after successful acquires (one of the unknown IP) and
\* a failed one
C5_Witness ==
  /\ \A p \in Procs : pc[p] = "idle"
  /\ \E p \in Procs : res[p] = "ok" /\ ip[p] = UnknownIP
  /\ \E p \in Procs : res[p] = "ok" /\ ip[p] # UnknownIP
  /\ \E p \in Procs : res[p] = "ErrIPLimitReached"
  /\ UnknownIP \in DOMAIN perIP

\* C6: after any sequence of Acquire and Release calls, a Release for an IP
\* that has no counter included, the total counter and every per-IP counter
\* are at least 0.
C6_CountersNonNegative ==
  /\ total >= 0
  /\ \A i \in DOMAIN perIP : perIP[i] >= 0

\* C7: UpdateLimits revokes no holder and changes no counter, and an Acquire
\* begun after UpdateLimits returned increments the total counter only while
\* it is below the new total cap and the per-IP counter only while it is
\* below the new per-IP cap.
C7_NoSuccessAboveNewCap ==
  [][/\ (upc' # upc) =>
          (total' = total /\ perIP' = perIP /\ pc' = pc /\ res' = res)
     /\ \A p \in Procs :
          fresh[p] =>
            /\ (pc[p] = "a_casTotal" /\ pc'[p] = "a_getCounter")
                 => total < maxTotal
            /\ (pc[p] = "a_casIP" /\ pc'[p] = "holding")
                 => perIP[ip[p]] < maxPerIP]_vars

\* the per-IP cap was lowered below the number of slots in flight on the IP,
\* the holders still hold them, and an Acquire begun after the update has
\* found the counter at the new cap and is about to return IpLimitReached
C7_Witness ==
  /\ upc = "idle"
  /\ perIP["ip1"] > maxPerIP
  /\ Cardinality({p \in Procs : pc[p] = "holding"}) = perIP["ip1"]
  /\ \E p \in Procs :
       /\ fresh[p]
       /\ pc[p] = "a_rollback"
       /\ locMaxPerIP[p] = maxPerIP

(***************************************************************************)
(* Claims about the selector                                               *)
(***************************************************************************)

\* the entries Select got from the history when it computed the result the
\* caller holds
SelEntries == HistoryGetFiltered(hosts, selHost, historyWindow, historySize, now)

\* the candidates of that Select
SelCandidates == {selAvail[k] : k \in 1..Len(selAvail)}

\* C8: Select returns a candidate whose usage count in the host's filtered
\* history is the lowest, and among the candidates with that count one whose
\* last use is the oldest, a never-used IP counting as used at the zero time.
C8_LowestUsageOldestLastUse ==
  (bpc = "selected" /\ selFresh) =>
    /\ selected \in SelCandidates
    /\ \A j \in SelCandidates :
         /\ UsageCount(SelEntries, selected) <= UsageCount(SelEntries, j)
         /\ UsageCount(SelEntries, j) = UsageCount(SelEntries, selected)
              => LastUsed(SelEntries, selected) <= LastUsed(SelEntries, j)

\* a Select has passed over an earlier candidate with the same non-zero usage
\* count because that candidate was used more recently
C8_Witness ==
  /\ bpc = "selected" /\ selFresh
  /\ UsageCount(SelEntries, selected) >= 1
  /\ \E k \in 1..Len(selAvail) :
       /\ selAvail[k] # selected
       /\ \A m \in 1..k : selAvail[m] # selected
       /\ UsageCount(SelEntries, selAvail[k]) = UsageCount(SelEntries, selected)
       /\ LastUsed(SelEntries, selAvail[k]) > LastUsed(SelEntries, selected)

\* every entry recorded in the rotation scenario is stored and is younger
\* than the history window
NothingExpired ==
  LET entries == IF RotationHost \in DOMAIN hosts THEN hosts[RotationHost] ELSE <<>>
  IN /\ Len(entries) = nReq
     /\ \A k \in 1..Len(entries) : entries[k].Timestamp > now - historyWindow

\* every entry recorded in the rotation scenario is among the entries that
\* Select gets from the history
AllInFilter ==
  Len(HistoryGetFiltered(hosts, RotationHost, historyWindow, historySize, now)) = nReq

\* the distribution after nReq rounds: no IP used more than ceil(nReq / K)
\* times, which is (nReq + K - 1) \div K, and after 9 rounds over 3 IPs each
\* used 3 times with 9 entries stored
Balanced ==
  /\ \A i \in IPSet : used[i] <= (nReq + Len(IPs) - 1) \div Len(IPs)
  /\ nReq = 9 =>
       /\ \A i \in IPSet : used[i] = 3
       /\ Len(hosts[RotationHost]) = 9

C10_ColdStartFirstCandidate ==
  (bpc = "selected" /\ selFresh /\ SelEntries = <<>>) => selected = selAvail[1]


(***************************************************************************)
(* Claims about the history                                                *)
(***************************************************************************)

\* History.GetFiltered(host, window, size) on the history hs
FilteredFor(hs, host) ==
  HistoryGetFiltered(hs, host, historyWindow, historySize, now)

\* the availableIPs that Select can be given, out of the IPs that are
\* recorded
Availabilities ==
  {getAvailableIPs(IPSet, unlimited) : unlimited \in SUBSET RecordIPs} \ {<<>>}

\* this step is a step of a Record for a host other than B
RecordsOtherThan(B) ==
  \E p \in Recorders :
    /\ rpc'[p] # rpc[p]
    /\ B # (IF rpc[p] = "idle" THEN recHost'[p] ELSE recHost[p])

\* this step leaves what GetFiltered returns for B, and what Select returns
\* for B under every availability, as they were
SameSelection(B) ==
  LET before == FilteredFor(hosts, B)
      after == FilteredFor(hosts', B)
  IN /\ after = before
     /\ \A avail \in Availabilities : SelectIP(avail, after) = SelectIP(avail, before)

\* this step evicts the oldest entry of the history
Evicts ==
  /\ maxTotalEntries > 0 /\ totalEntries >= maxTotalEntries
  /\ \E p \in Recorders : rpc[p] = "idle" /\ rpc'[p] = "getOrCreate"

\* C11 as stated: no step of a Record for another host changes the entries
\* returned for host B or the IP selected for B
C11_HostIsolation ==
  [][\A B \in Hosts : RecordsOtherThan(B) => SameSelection(B)]_vars

\* C11, amended: no step of a Record for another host that evicts nothing
\* (no cap configured, or the count below the cap) changes the entries
\* returned for host B or the IP selected for B
C11_HostIsolationWithoutEviction ==
  [][\A B \in Hosts : (RecordsOtherThan(B) /\ ~Evicts) => SameSelection(B)]_vars

\* host B has history and another host has been recorded more often, with
\* every Record finished
C11_Witness ==
  /\ Pending = {}
  /\ \E A \in DOMAIN hosts : \E B \in DOMAIN hosts :
       /\ A # B
       /\ Len(hosts[A]) >= 2
       /\ Len(hosts[B]) >= 1
       /\ \E avail \in Availabilities :
            SelectIP(avail, FilteredFor(hosts, B)) # SelectIP(avail, FilteredFor(hosts, A))

(***************************************************************************)
(* Claims about the health checker                                         *)
(***************************************************************************)

\* the configured IPs whose state is Healthy
InStateHealthy == {i \in IPSet : State[i] = "Healthy"}

C13_FallbackToAllIPs ==
  (bpc \in {"selected", "error"} /\ selFresh /\ InStateHealthy = {}) =>
    /\ selAvail = SelectSeq(IPs, LAMBDA i : i \in selUnlimited)
    /\ bpc = "error" <=> selUnlimited = {}

\* Select returned an IP out of several candidates while none was Healthy
C13_Witness ==
  /\ bpc = "selected" /\ selFresh
  /\ InStateHealthy = {}
  /\ Len(selAvail) >= 2
  /\ selected \in selUnlimited

\* the candidates after the health filter and the limiter filter
Candidates ==
  {i \in IPSet : i \in selUnlimited /\ (InStateHealthy = {} \/ i \in InStateHealthy)}

\* C14: Select fails with ErrNoAvailableIPs exactly when there is no
\* candidate after both filters; otherwise it returns a candidate, which
\* the limiter reported available
C14_NoAvailableIPsIffNoCandidate ==
  selFresh =>
    /\ bpc = "error" <=> Candidates = {}
    /\ bpc = "selected" => (selected \in Candidates /\ selected \in selUnlimited)

\* Select failed although some IPs were Healthy and the limiter reported
\* others available
C14_Witness ==
  /\ bpc = "error" /\ selFresh
  /\ InStateHealthy # {}
  /\ selUnlimited # {}

\* this step records a successful / a failed probe of IP i
Succeeds(i) == ConsecutiveSuccesses'[i] = ConsecutiveSuccesses[i] + 1
Fails(i) == ConsecutiveFailures'[i] = ConsecutiveFailures[i] + 1

\* C15: a Healthy IP becomes Unhealthy exactly by the failed probe that
\* brings its consecutive failures to failure_threshold; a successful probe
\* resets the consecutive failures to zero and leaves it Healthy
C15_UnhealthyAtFailureThreshold ==
  [][\A i \in IPSet : State[i] = "Healthy" =>
       /\ State'[i] = "Unhealthy" <=>
            (Fails(i) /\ ConsecutiveFailures'[i] = FailureThreshold)
       /\ Succeeds(i) => (ConsecutiveFailures'[i] = 0 /\ State'[i] = "Healthy")]_vars

\* one IP became Unhealthy at its second failure or later, another one is
\* Healthy with a failure counted, a third one Healthy after a success
C15_Witness ==
  /\ FailureThreshold >= 2
  /\ \E i \in IPSet : State[i] = "Unhealthy" /\ ConsecutiveFailures[i] = FailureThreshold
  /\ \E i \in IPSet : State[i] = "Healthy" /\ ConsecutiveFailures[i] = FailureThreshold - 1
  /\ \E i \in IPSet : State[i] = "Healthy" /\ ConsecutiveSuccesses[i] > 0

\* C16: an IP that has had success_threshold consecutive successful probes
\* is Healthy
C16_HealthyAfterSuccessThreshold ==
  \A i \in IPSet : ConsecutiveSuccesses[i] >= SuccessThreshold => State[i] = "Healthy"

\* C17: the state of an IP changes only from Healthy to Unhealthy (by a
\* failure), from Unhealthy to Recovering (by a success, with one
\* consecutive success), from Recovering to Healthy (by the success that
\* brings the consecutive successes to success_threshold) and from
\* Recovering to Unhealthy (by any failure); a failure leaves an Unhealthy
\* IP Unhealthy
C17_OnlyTheseTransitions ==
  [][\A i \in IPSet :
       /\ State'[i] # State[i] =>
            <<State[i], State'[i]>> \in
              {<<"Healthy", "Unhealthy">>, <<"Unhealthy", "Recovering">>,
               <<"Recovering", "Healthy">>, <<"Recovering", "Unhealthy">>}
       /\ (State[i] = "Healthy" /\ State'[i] = "Unhealthy") => Fails(i)
       /\ (State[i] = "Unhealthy" /\ Succeeds(i)) =>
            (State'[i] = "Recovering" /\ ConsecutiveSuccesses'[i] = 1)
       /\ (State[i] = "Unhealthy" /\ Fails(i)) => State'[i] = "Unhealthy"
       /\ (State[i] = "Recovering" /\ Succeeds(i)) =>
            (State'[i] = "Healthy" <=> ConsecutiveSuccesses'[i] >= SuccessThreshold)
       /\ (State[i] = "Recovering" /\ Fails(i)) => State'[i] = "Unhealthy"]_vars

\* one IP is Recovering after its first success, another one stayed
\* Unhealthy through a further failure, a third one is Healthy again after
\* success_threshold successes
C17_Witness ==
  /\ SuccessThreshold >= 2
  /\ \E i \in IPSet : State[i] = "Recovering" /\ ConsecutiveSuccesses[i] = 1
  /\ \E i \in IPSet : State[i] = "Unhealthy" /\ ConsecutiveFailures[i] > FailureThreshold
  /\ \E i \in IPSet : State[i] = "Healthy" /\ ConsecutiveSuccesses[i] = SuccessThreshold

(***************************************************************************)
(* Claims about the bounds of the history                                  *)
(***************************************************************************)

\* the entries stored in History.hosts
Stored == StoredEntries(hosts, DOMAIN hosts)

\* C18: with a cap configured, the entries stored over all hosts never
\* exceed it
C18_StoredWithinCap == maxTotalEntries > 0 => Stored <= maxTotalEntries

\* the timestamps of all the entries stored
Timestamps(hs) ==
  UNION {{hs[h][k].Timestamp : k \in 1..Len(hs[h])} : h \in DOMAIN hs}

\* this step is the first step of a Record that arrives while the entries
\* stored are at the cap
RecordAtCap ==
  /\ maxTotalEntries > 0
  /\ Stored >= maxTotalEntries
  /\ \E p \in Recorders : rpc[p] = "idle" /\ rpc'[p] = "getOrCreate"

\* this step removes the first entry of host h from the history, and the
\* host with it if that was its only entry, and nothing else
RemovesFirstOf(h) ==
  /\ DOMAIN hosts' \subseteq DOMAIN hosts
  /\ \A g \in DOMAIN hosts \ {h} : g \in DOMAIN hosts' /\ hosts'[g] = hosts[g]
  /\ IF Len(hosts[h]) = 1
       THEN h \notin DOMAIN hosts'
       ELSE h \in DOMAIN hosts' /\ hosts'[h] = Tail(hosts[h])

\* C19: a Record that arrives at the cap evicts exactly one entry before
\* its own entry is added, and no stored entry is older than the evicted one
C19_EvictsTheOldestEntry ==
  [][RecordAtCap =>
       \E h \in DOMAIN hosts :
         /\ Len(hosts[h]) > 0
         /\ RemovesFirstOf(h)
         /\ \A t \in Timestamps(hosts) : hosts[h][1].Timestamp <= t]_vars

\* a Record at the cap has just evicted the oldest entry, while another
\* host keeps a younger one
C19_Witness ==
  /\ maxTotalEntries >= 2
  /\ Stored = maxTotalEntries - 1
  /\ \E x \in evicted : \E h \in DOMAIN hosts :
       /\ h # x.host
       /\ Len(hosts[h]) > 0
       /\ hosts[h][1].Timestamp > x.entry.Timestamp

\* C20: History.hosts holds no host with an empty history, except one
\* that a Record has just created and is about to add its entry to
C20_NoEmptyHostHistory ==
  \A h \in DOMAIN hosts :
    Len(hosts[h]) = 0 =>
      \E p \in Recorders : rpc[p] = "add" /\ recHost[p] = h /\ ~orphan[p]

\* an eviction has just emptied a host and deleted it, while another host
\* is left in History.hosts
C20_Witness ==
  /\ evicted # {}
  /\ \E x \in evicted : x.host \in removed /\ x.host \notin DOMAIN hosts
  /\ DOMAIN hosts # {}


(***************************************************************************)
(* Claims about Cleanup, Record and GetFiltered.                           *)
(***************************************************************************)

\* this step is a History.Cleanup: no recorder moves and the clock stands
CleanupStep == rpc' = rpc /\ now' = now

\* the entries stored for host h in hs, none for a host that hs does not hold
EntriesOf(hs, h) == IF h \in DOMAIN hs THEN hs[h] ELSE <<>>

\* the entries of host h that are not older than the window at this moment
NotOlderThanWindow(h) ==
  SelectSeq(EntriesOf(hosts, h), LAMBDA e : e.Timestamp >= now - historyWindow)

\* the entries of host h that lie after the cutoff now - window
AfterCutoff(h) ==
  SelectSeq(EntriesOf(hosts, h), LAMBDA e : e.Timestamp > now - historyWindow)

\* C21 as stated: Cleanup(window) removes exactly the entries whose
\* timestamp is < now - window (it keeps every entry with timestamp
\* >= now - window) and exactly the hosts left without entries
C21_CleanupRemovesOlderThanWindow ==
  [][CleanupStep =>
       \A h \in DOMAIN hosts \cup DOMAIN hosts' :
         /\ EntriesOf(hosts', h) = NotOlderThanWindow(h)
         /\ h \in DOMAIN hosts' <=> Len(NotOlderThanWindow(h)) > 0]_vars

\* C21 amended: Cleanup(window) removes exactly the entries whose timestamp
\* is <= now - window (it keeps the entries after the cutoff, in their
\* order) and exactly the hosts left without entries
C21_CleanupRemovesNotAfterCutoff ==
  [][CleanupStep =>
       \A h \in DOMAIN hosts \cup DOMAIN hosts' :
         /\ EntriesOf(hosts', h) = AfterCutoff(h)
         /\ h \in DOMAIN hosts' <=> Len(AfterCutoff(h)) > 0]_vars

\* a Cleanup that no Record overlapped has removed a host whose entries had
\* all expired and has kept another host
C21_Witness ==
  /\ removed # {}
  /\ evicted = {}
  /\ Pending = {}
  /\ DOMAIN hosts # {}


\* this step is the return of the Record of goroutine p
RecordReturns(p) == rpc[p] = "add" /\ rpc'[p] = "idle"

\* C22: a Record(host, ip) that has returned is counted by a Select(host)
\* that begins after it (its entry is the most recent one GetFiltered
\* returns for the host), whatever Records, evictions or Cleanups ran
\* concurrently with it
C22_CompletedRecordIsCounted ==
  [][\A p \in Recorders :
       RecordReturns(p) =>
         LET counted == HistoryGetFiltered(hosts', recHost[p], historyWindow,
                                           historySize, now)
         IN /\ Len(counted) > 0
            /\ counted[1] = [IP |-> recIP[p], Timestamp |-> now]]_vars


\* the smaller of two numbers
Min(a, b) == IF a <= b THEN a ELSE b

\* C23: GetFiltered returns at most historySize entries, all of them after
\* the cutoff of the window, and they are the most recent such entries of
\* the host, the most recent first
C23_FilteredMostRecentInWindow ==
  \A h \in Hosts :
    LET result == FilteredFor(hosts, h)
        inWindow == AfterCutoff(h)
        n == Len(inWindow)
        k == Min(historySize, n)
    IN /\ Len(result) = k
       /\ \A j \in 1..k : result[j] = inWindow[n - j + 1]
       /\ \A j \in 1..k : result[j].Timestamp > now - historyWindow
       /\ \A j \in 1..k : \A m \in 1..(n - k) :
            inWindow[m].Timestamp <= result[j].Timestamp

\* a Select has read the history of a host that holds more entries inside
\* the window than historySize
C23_Witness ==
  /\ bpc = "selected"
  /\ selFresh
  /\ Len(AfterCutoff(selHost)) > historySize


(***************************************************************************)
(* ConnectHandler.tunnel (connect.go:141-186) and copyWithIdleTimeout      *)
(* (connect.go:189-218).                                                   *)
(*                                                                         *)
(* The two copies run as goroutines; tunnel waits for both.  Time is a     *)
(* counter that moves only while every running copy is blocked in a Read   *)
(* or a Write whose deadline has not come: a Read or Write returns, with   *)
(* data, an error or a timeout, no later than its deadline.                *)
(***************************************************************************)
\* cfg.IdleTimeout ranges over 1..MaxIdleTimeout ticks of the clock
MaxIdleTimeout == 2
\* the clock of the tunnel runs from 0 to MaxTunnelClock
MaxTunnelClock == 5
\* the bytes one Read returns at most
MaxChunk == 2
\* the bytes one copy moves at most
MaxCopied == 2

\* a deadline that never comes: SetReadDeadline and SetWriteDeadline with
\* the zero time
DeadlineNever(t) == MaxTunnelClock + 1

\* time.Now().Add(idleTimeout) at time t
Deadline(t) == t + idleTimeout

\* copyWithIdleTimeout returns (total, err) and its other locals die;
\* tunnel logs err and goes on to store the total
CopyReturn(d, how) ==
  /\ tpc' = [tpc EXCEPT ![d] = "store"]
  /\ endOf' = [endOf EXCEPT ![d] = how]
  /\ nRead' = [nRead EXCEPT ![d] = 0]
  /\ readErr' = [readErr EXCEPT ![d] = "nil"]
  /\ deadline' = [deadline EXCEPT ![d] = 0]

\* src.SetReadDeadline(time.Now().Add(idleTimeout)) at the top of the loop
CopyLoop(d) ==
  /\ tpc' = [tpc EXCEPT ![d] = "read"]
  /\ deadline' = [deadline EXCEPT ![d] = Deadline(clock)]
  /\ nRead' = [nRead EXCEPT ![d] = 0]
  /\ readErr' = [readErr EXCEPT ![d] = "nil"]
  /\ UNCHANGED endOf

\* what ends the copy after a Read that returned err
EndOfRead(err) ==
  IF err = "EOF" THEN "eof" ELSE IF err = "timeout" THEN "timeout" ELSE "read_error"

\* n, readErr := src.Read(buf): n bytes and readErr, a timeout only once
\* the read deadline has come; with n > 0 the copy sets the write deadline
\* and goes on to dst.Write, otherwise it returns on readErr
CopyRead(d, n, err) ==
  /\ tpc[d] = "read"
  /\ n = 0 => err # "nil"
  /\ err = "timeout" => (n = 0 /\ clock >= deadline[d])
  /\ wrote[d] + n <= MaxCopied
  /\ IF n > 0
       THEN /\ tpc' = [tpc EXCEPT ![d] = "write"]
            /\ nRead' = [nRead EXCEPT ![d] = n]
            /\ readErr' = [readErr EXCEPT ![d] = err]
            /\ deadline' = [deadline EXCEPT ![d] = Deadline(clock)]
            /\ lastFlow' = clock
            /\ UNCHANGED endOf
       ELSE /\ CopyReturn(d, EndOfRead(err))
            /\ UNCHANGED lastFlow
  /\ UNCHANGED <<idleTimeout, clock, copyTotal, inOut, bytes, wrote>>
  /\ UNCHANGED <<limVars, balVars, recVars, healthVars, reqAuth, headerVars,
                 extVars>>

\* what the copy does after a Write of nRead[d] bytes that returned
\* (written, err)
AfterWrite(d, written, err) ==
  IF err # "nil"
    THEN CopyReturn(d, IF err = "timeout" THEN "timeout" ELSE "write_error")
    ELSE IF written # nRead[d]
      THEN CopyReturn(d, "short_write")
      ELSE IF readErr[d] # "nil"
        THEN CopyReturn(d, EndOfRead(readErr[d]))
        ELSE CopyLoop(d)

\* a copy that counts the bytes it read instead of the bytes it wrote
CopyWriteCountsRead(d, written, err) ==
  /\ tpc[d] = "write"
  /\ written \in 0..nRead[d]
  /\ err = "timeout" => (written < nRead[d] /\ clock >= deadline[d])
  /\ copyTotal' = [copyTotal EXCEPT ![d] = @ + nRead[d]]
  /\ wrote' = [wrote EXCEPT ![d] = @ + written]
  /\ lastFlow' = IF written > 0 THEN clock ELSE lastFlow
  /\ AfterWrite(d, written, err)
  /\ UNCHANGED <<idleTimeout, clock, inOut, bytes>>
  /\ UNCHANGED <<limVars, balVars, recVars, healthVars, reqAuth, headerVars,
                 extVars>>

\* written, writeErr := dst.Write(buf[:n]); total += int64(written); return
\* on writeErr, on a short write, then on readErr; otherwise loop.  A
\* timeout only once the write deadline has come
CopyWrite(d, written, err) ==
  /\ tpc[d] = "write"
  /\ written \in 0..nRead[d]
  /\ err = "timeout" => (written < nRead[d] /\ clock >= deadline[d])
  /\ copyTotal' = [copyTotal EXCEPT ![d] = @ + written]
  /\ wrote' = [wrote EXCEPT ![d] = @ + written]
  /\ lastFlow' = IF written > 0 THEN clock ELSE lastFlow
  /\ AfterWrite(d, written, err)
  /\ UNCHANGED <<idleTimeout, clock, inOut, bytes>>
  /\ UNCHANGED <<limVars, balVars, recVars, healthVars, reqAuth, headerVars,
                 extVars>>

\* in.Store(n) or out.Store(n), CloseWrite, wg.Done()
CopyStore(d) ==
  /\ tpc[d] = "store"
  /\ inOut' = [inOut EXCEPT ![d] = copyTotal[d]]
  /\ tpc' = [tpc EXCEPT ![d] = "done"]
  /\ UNCHANGED <<idleTimeout, clock, copyTotal, nRead, readErr, deadline,
                 bytes, wrote, lastFlow, endOf>>
  /\ UNCHANGED <<limVars, balVars, recVars, healthVars, reqAuth, headerVars,
                 extVars>>

\* wg.Wait() is over: return in.Load(), out.Load()
TunnelReturn ==
  /\ bytes = <<>>
  /\ \A d \in Dirs : tpc[d] = "done"
  /\ bytes' = <<inOut["in"], inOut["out"]>>
  /\ UNCHANGED <<idleTimeout, clock, tpc, copyTotal, nRead, readErr, deadline,
                 inOut, wrote, lastFlow, endOf>>
  /\ UNCHANGED <<limVars, balVars, recVars, healthVars, reqAuth, headerVars,
                 extVars>>

\* time passes while the tunnel is open and each running copy is blocked
\* in a Read or a Write before its deadline
TunnelTick ==
  /\ bytes = <<>>
  /\ clock < MaxTunnelClock
  /\ \E d \in Dirs : tpc[d] # "done"
  /\ \A d \in Dirs :
       \/ tpc[d] = "done"
       \/ tpc[d] \in {"read", "write"} /\ clock < deadline[d]
  /\ clock' = clock + 1
  /\ UNCHANGED <<idleTimeout, tpc, copyTotal, nRead, readErr, deadline,
                 inOut, bytes, wrote, lastFlow, endOf>>
  /\ UNCHANGED <<limVars, balVars, recVars, healthVars, reqAuth, headerVars,
                 extVars>>

\* the errors a Read and a Write return
ReadErrors == {"nil", "EOF", "error", "timeout"}
WriteErrors == {"nil", "error", "timeout"}

NextTunnel ==
  \/ \E d \in Dirs : \E n \in 0..MaxChunk : \E err \in ReadErrors : CopyRead(d, n, err)
  \/ \E d \in Dirs : \E w \in 0..MaxChunk : \E err \in WriteErrors : CopyWrite(d, w, err)
  \/ \E d \in Dirs : CopyStore(d)
  \/ TunnelReturn
  \/ TunnelTick

\* tunnel(client, target, idleTimeout): client.SetDeadline and
\* target.SetDeadline, then both copies start their first Read
InitTunnel ==
  /\ InitLimiter(MaxPerIP, MaxTotal, LimiterIPs)
  /\ InitBalancer(1, 1)
  /\ NoRequests
  /\ NoExt
  /\ idleTimeout \in 1..MaxIdleTimeout
  /\ clock = 0
  /\ tpc = [d \in Dirs |-> "read"]
  /\ copyTotal = [d \in Dirs |-> 0]
  /\ nRead = [d \in Dirs |-> 0]
  /\ readErr = [d \in Dirs |-> "nil"]
  /\ deadline = [d \in Dirs |-> Deadline(0)]
  /\ inOut = [d \in Dirs |-> 0]
  /\ bytes = <<>>
  /\ wrote = [d \in Dirs |-> 0]
  /\ lastFlow = 0
  /\ endOf = [d \in Dirs |-> "none"]

SpecTunnel == InitTunnel /\ [][NextTunnel]_vars

(***************************************************************************)
(* Handler.createOutgoingRequest and removeHopByHopHeaders                 *)
(* (handler.go:173-223).                                                   *)
(*                                                                         *)
(* An http.Header is a function from canonical header names to a value; a  *)
(* value is the sequence of its pieces: words, "," and " ".                *)
(***************************************************************************)

\* hopByHopHeadersList, handler.go:31-41
hopByHopHeadersList ==
  <<"Connection", "Keep-Alive", "Proxy-Authenticate", "Proxy-Authorization",
    "Proxy-Connection", "Te", "Trailer", "Transfer-Encoding", "Upgrade">>

\* textproto.CanonicalMIMEHeaderKey on the names that the requests carry
CanonicalMIMEHeaderKey(key) ==
  CASE key = "keep-alive" -> "Keep-Alive"
    [] key = "x-custom" -> "X-Custom"
    [] key = "upgrade" -> "Upgrade"
    [] key = "close" -> "Close"
    [] OTHER -> key

\* http.Header.Get(key): the value, "" for a header that is not there
HeaderGet(header, key) ==
  IF CanonicalMIMEHeaderKey(key) \in DOMAIN header
    THEN header[CanonicalMIMEHeaderKey(key)]
    ELSE <<>>

\* http.Header.Del(key)
HeaderDel(header, key) ==
  [k \in DOMAIN header \ {CanonicalMIMEHeaderKey(key)} |-> header[k]]

RECURSIVE HeaderDelAll(_, _)
\* for _, hdr := range keys { header.Del(hdr) }
HeaderDelAll(header, keys) ==
  IF keys = <<>>
    THEN header
    ELSE HeaderDelAll(HeaderDel(header, Head(keys)), Tail(keys))

RECURSIVE Split(_)
\* strings.Split(value, ",")
Split(value) ==
  IF Index(value, ",") = 0
    THEN <<value>>
    ELSE <<SubSeq(value, 1, Index(value, ",") - 1)>>
           \o Split(SubSeq(value, Index(value, ",") + 1, Len(value)))

\* strings.TrimSpace(token), as the name that is left: "" if nothing is
TrimSpace(token) ==
  LET solid == {i \in 1..Len(token) : token[i] # " "}
  IN IF solid = {}
       THEN ""
       ELSE token[CHOOSE i \in solid : \A j \in solid : i <= j]

\* the names of the tokens, trimmed
TrimAll(tokens) == [i \in 1..Len(tokens) |-> TrimSpace(tokens[i])]

\* removeHopByHopHeaders(header): delete the headers of
\* hopByHopHeadersList, then those named in what header.Get("Connection")
\* returns at that point
removeHopByHopHeaders(header) ==
  LET stripped == HeaderDelAll(header, hopByHopHeadersList)
      conn == HeaderGet(stripped, "Connection")
  IN IF conn # <<>>
       THEN HeaderDelAll(stripped, TrimAll(Split(conn)))
       ELSE stripped

\* what getClientIP returns for the client of the requests
ClientIP == "203.0.113.7"

\* createOutgoingRequest(r): clone, remove the hop-by-hop headers, set
\* X-Forwarded-For
createOutgoingRequest(header) ==
  LET out == removeHopByHopHeaders(header)
      prior == HeaderGet(out, "X-Forwarded-For")
  IN [k \in DOMAIN out \cup {"X-Forwarded-For"} |->
        IF k = "X-Forwarded-For"
          THEN IF prior # <<>> THEN prior \o <<",", " ", ClientIP>> ELSE <<ClientIP>>
          ELSE out[k]]

\* the headers, other than Connection, that the requests may carry
PlainNames ==
  {"Keep-Alive", "Proxy-Authorization", "Upgrade", "Content-Type", "X-Custom",
   "X-Forwarded-For"}

\* the values of their Connection header; <<>> for none
ConnectionValues ==
  {<<>>, <<"close">>, <<"keep-alive">>, <<"x-custom">>, <<"upgrade">>,
   <<"Keep-Alive", ",", " ", "X-Custom">>}

\* the headers of the incoming requests
IncomingHeaders ==
  {[k \in S \cup (IF c = <<>> THEN {} ELSE {"Connection"}) |->
      IF k = "Connection" THEN c ELSE <<"v">>] :
     S \in SUBSET PlainNames, c \in ConnectionValues}

\* outReq := h.createOutgoingRequest(r)
CreateOutgoingRequest ==
  /\ outHeader = <<>>
  /\ outHeader' = createOutgoingRequest(inHeader)
  /\ UNCHANGED <<inHeader, reqAuth, tunnelVars, extVars>>
  /\ UNCHANGED <<limVars, balVars, recVars, healthVars>>

\* the next request to forward arrives
NextRequest ==
  /\ outHeader # <<>>
  /\ inHeader' \in IncomingHeaders
  /\ outHeader' = <<>>
  /\ UNCHANGED <<reqAuth, tunnelVars, extVars>>
  /\ UNCHANGED <<limVars, balVars, recVars, healthVars>>

NextHeaders ==
  \/ CreateOutgoingRequest
  \/ NextRequest

InitHeaders ==
  /\ InitLimiter(MaxPerIP, MaxTotal, LimiterIPs)
  /\ InitBalancer(1, 1)
  /\ NoTunnel
  /\ NoExt
  /\ reqAuth = [p \in Procs |-> <<>>]
  /\ inHeader \in IncomingHeaders
  /\ outHeader = <<>>

SpecHeaders == InitHeaders /\ [][NextHeaders]_vars

(***************************************************************************)
(* Claims about the order of the steps of a request.                       *)
(***************************************************************************)

\* the steps of ServeHTTP that dial, write to or read from the upstream or
\* the client: connect.go:88-125, handler.go:134-151
IOStages ==
  {"c_dial", "c_hijack", "c_write200", "c_tunnel", "f_roundTrip", "f_copy"}

\* C24: on the CONNECT and the forward path the upstream is dialed only
\* after Acquire(ip) succeeded for the request, and the slot is released
\* only after the upstream and client I/O of the request has finished:
\* during every I/O step the request holds its slot and has released nothing
C24_IOOnlyWhileHoldingSlot ==
  \A p \in HandlerProcs :
    pc[p] \in IOStages =>
      /\ res[p] = "ok"
      /\ incTotal[p] = 1
      /\ incIP[p] = 1
      /\ nRel[p] = 0

\* a CONNECT is inside its tunnel while a forward copies its response body
C24_Witness ==
  /\ pc["g1"] = "c_tunnel" /\ kind["g1"] = "connect"
  /\ pc["g2"] = "f_copy" /\ kind["g2"] = "forward"
  /\ perIP[ip["g1"]] >= 1 /\ perIP[ip["g2"]] >= 1


\* the steps of ConnectHandler.ServeHTTP that follow a successful Dial
AfterDial == {"c_hijack", "c_write200", "c_tunnel"}

\* C25: for CONNECT the 200 Connection Established line is written only
\* after the dial succeeded; a failed dial is answered 502, its request
\* releases the slot, and neither the 200 line nor the tunnel follows
C25_No200AfterFailedDial ==
  \A p \in HandlerProcs :
    /\ pc[p] \in AfterDial => exitPath[p] = "none"
    /\ exitPath[p] = "dial_failed" =>
         /\ kind[p] = "connect"
         /\ Response(kind[p], exitPath[p]).status = 502
         /\ pc[p] \notin AfterDial
         /\ pc[p] = "h_done" =>
              nRel[p] = 1 /\ incTotal[p] = 0 /\ incIP[p] = 0

\* a CONNECT whose dial failed has returned and released its slot while
\* another CONNECT, whose dial succeeded, is about to write the 200 line
C25_Witness ==
  /\ pc["g1"] = "h_done" /\ exitPath["g1"] = "dial_failed" /\ nRel["g1"] = 1
  /\ pc["g2"] = "c_write200"


\* the CONNECT of p has been refused while another request holds a tunnel
\* open through an IP that is at max_per_ip
RefusedAtPerIPCap(p) ==
  /\ kind[p] = "connect"
  /\ pc[p] = "h_return"
  /\ exitPath[p] \in {"no_ips", "limit"}
  /\ \E q \in HandlerProcs \ {p} :
       pc[q] = "c_tunnel" /\ perIP[ip[q]] = maxPerIP

\* C26: while the IPs that can serve it hold max_per_ip open tunnels, a
\* further CONNECT is answered 503 with a body that contains
\* "Connection limit reached"
C26_PerIPCapAnswersLimitReached ==
  \A p \in HandlerProcs :
    RefusedAtPerIPCap(p) =>
      /\ Response(kind[p], exitPath[p]).status = 503
      /\ Response(kind[p], exitPath[p]).body = "Connection limit reached"


(***************************************************************************)
(* Claims about the tunnel.                                                *)
(***************************************************************************)

\* tunnel has returned
TunnelReturned == bytes # <<>>

\* C27: when tunnel returns, bytesIn is the number of bytes written to the
\* upstream and bytesOut the number of bytes written to the client, however
\* each copy ended (EOF, read error, write error, short write, timeout)
C27_TotalsAreBytesWritten ==
  TunnelReturned => bytes[1] = wrote["in"] /\ bytes[2] = wrote["out"]

\* tunnel has returned after a Write to the upstream that failed part way
\* and a copy to the client that moved data and then timed out
C27_Witness ==
  /\ TunnelReturned
  /\ endOf["in"] = "write_error" /\ wrote["in"] = 1
  /\ endOf["out"] = "timeout" /\ wrote["out"] > 0

\* C28: once no data has flowed for longer than idleTimeout both copies end
\* and tunnel returns: it never stays open later than 2 * idleTimeout after
\* the last data moved
C28_ReturnsWithinTwoIdleTimeouts ==
  ~TunnelReturned => clock <= lastFlow + 2 * idleTimeout

\* data flowed, then nothing for idleTimeout: both copies timed out and
\* tunnel returned
C28_Witness ==
  /\ TunnelReturned
  /\ lastFlow > 0
  /\ clock = lastFlow + idleTimeout
  /\ \A d \in Dirs : endOf[d] = "timeout"


(***************************************************************************)
(* Claims about authentication and the headers of forwarded requests.      *)
(***************************************************************************)

\* the header is Basic followed by the base64 of the configured "u:p"
ValidBasic(header) == header = <<"Basic ", "dTpw">>

\* this step is the arrival of a request at goroutine p
Arrives(p) == pc[p] \in {"idle", "h_done"} /\ pc'[p] \notin {"idle", "h_done"}

\* this step selects no IP and leaves the limiter counters and the history
\* as they are
NothingPerformed == UNCHANGED <<ip, total, perIP, hosts, totalEntries>>

\* C29: with credentials configured, a request (CONNECT included) whose
\* Proxy-Authorization header is not the valid Basic one is answered 407
\* and returns without any IP selection, slot acquisition, history record
\* or upstream I/O
C29_NoCredentialsNoService ==
  [][\A p \in HandlerProcs :
       /\ (Arrives(p) /\ ~ValidBasic(reqAuth'[p])) =>
            /\ exitPath'[p] = "auth_required"
            /\ Response(kind'[p], exitPath'[p]).status = 407
            /\ pc'[p] = "h_return"
            /\ NothingPerformed
       /\ (exitPath[p] = "auth_required" /\ pc[p] = "h_return"
             /\ pc'[p] # pc[p]) =>
            /\ pc'[p] = "h_done"
            /\ nRel'[p] = 0
            /\ NothingPerformed]_vars

\* a CONNECT with the wrong password has been answered 407 and has returned
\* while a request with the right credentials is inside its tunnel
C29_Witness ==
  /\ pc["g1"] = "h_done" /\ exitPath["g1"] = "auth_required"
  /\ kind["g1"] = "connect" /\ reqAuth["g1"] = <<"Basic ", "dTp4">>
  /\ pc["g2"] = "c_tunnel" /\ ValidBasic(reqAuth["g2"])


\* the standard hop-by-hop header names
HopByHopNames == {hopByHopHeadersList[i] : i \in 1..Len(hopByHopHeadersList)}

\* the headers that the Connection header of header names
NamedInConnection(header) ==
  LET names == TrimAll(Split(HeaderGet(header, "Connection")))
  IN {CanonicalMIMEHeaderKey(names[i]) : i \in 1..Len(names)} \ {""}

\* the outgoing request of the incoming one has been made
Forwarded == outHeader # <<>>

\* C30: the forwarded request carries none of the standard hop-by-hop
\* headers and none of the headers named in the value of the incoming
\* Connection header
C30_NoHopByHopForwarded ==
  Forwarded =>
    /\ DOMAIN outHeader \cap HopByHopNames = {}
    /\ DOMAIN outHeader \cap NamedInConnection(inHeader) = {}


(***************************************************************************)
(* Claims about the counter and the cap of the history.                    *)
(***************************************************************************)

\* C35: the counter totalEntries of a capped History equals the number of
\* entries stored over all hosts after every call: a Cleanup that starts
\* with no Record in progress and the counter equal to the stored entries
\* ends with the counter equal to the stored entries
C35_CleanupKeepsCounterExact ==
  [][(CleanupStep /\ maxTotalEntries > 0 /\ Pending = {}
        /\ totalEntries = Stored)
       => totalEntries' = StoredEntries(hosts', DOMAIN hosts')]_vars


\* C37: an Acquire returns ErrTotalLimitReached only when maxTotal slots are
\* taken without counting the reservations of the Acquires that have already
\* met the per-IP cap and are about to roll back: such a temporary
\* reservation never makes another Acquire fail
C37_RollbackNeverFailsAnother ==
  [][\A p \in Procs :
       (pc[p] = "a_loadTotal" /\ res'[p] = "ErrTotalLimitReached")
         => total - Cardinality({q \in Procs : pc[q] = "a_rollback"})
              >= locMaxTotal[p]]_vars


(***************************************************************************)
(* Claims about the rejections of the proxy.                               *)
(***************************************************************************)

\* the handler p is answered an error by limiter.Acquire in this step
AcquireRefuses(p) == pc[p] # "h_limit" /\ pc'[p] = "h_limit"

\* nothing is recorded yet: every slot taken since the start is still held
NothingRecordedYet == StoredEntries(hosts, DOMAIN hosts) = 0

\* C36: while every configured IP is healthy, a request is refused by
\* Acquire (503) only when every configured IP is at its per-IP cap or
\* max_total slots are taken by the other requests: two requests that
\* selected the same IP never make one of them fail while another IP is
\* free.  Stated while nothing is recorded, when no slot has yet been given
\* back, so that an IP free now has been free all along.
C36_RefusedOnlyWithoutFreeSlot ==
  [][\A p \in HandlerProcs :
       (AcquireRefuses(p) /\ NothingRecordedYet)
         => \/ \A i \in IPSet : perIP[i] >= maxPerIP
            \/ total - incTotal[p] >= maxTotal]_vars


(***************************************************************************)
(* Claims about the rotation over the IPs.                                 *)
(***************************************************************************)

\* C38: with every IP available and one host, no IP is starved: once 2 * K
\* rounds of Select and Record have been made, none of their entries having
\* left the history window, every one of the K IPs has been selected at
\* least once, whatever history_size >= 1 the balancer is given
C38_NoIPStarved ==
  (nReq >= 2 * Len(IPs) /\ NothingExpired) => \A i \in IPSet : used[i] >= 1


\* cfg.HistoryMaxTotalEntries, the history_max_total_entries the proxy is
\* started with
HistoryMaxTotalEntries == MaxCap

\* C39: the history of the running proxy's balancer never stores more than
\* history_max_total_entries entries over all hosts
C39_HistoryHonoursConfiguredCap == Stored <= HistoryMaxTotalEntries


(***************************************************************************)
(* Handler.getClientIP                                                     *)
(*                                                                         *)
(* A string is the sequence of its characters.  Go's positions count from  *)
(* 0, the positions of a sequence from 1: s[a:b] is SubSeq(s, a + 1, b).   *)
(***************************************************************************)
\* the longest remote address
MaxAddrLen == 5

\* the characters of the remote addresses: the brackets, the colon and a
\* character that stands for the letters, the digits, '.' and '%'
AddrChars == {"[", "]", ":", "a"}

\* the strings of at most n characters
Strings(n) == UNION {[1..k -> AddrChars] : k \in 0..n}

\* strings.HasPrefix(s, prefix)
HasPrefix(s, prefix) ==
  Len(s) >= Len(prefix) /\ SubSeq(s, 1, Len(prefix)) = prefix

\* the positions (from 0) at which substr occurs in s
Occurrences(s, substr) ==
  {k \in 0..(Len(s) - Len(substr)) : SubSeq(s, k + 1, k + Len(substr)) = substr}

\* strings.LastIndex(s, substr): the position of the last occurrence, or -1
LastIndex(s, substr) ==
  IF Occurrences(s, substr) = {}
    THEN -1
    ELSE CHOOSE k \in Occurrences(s, substr) :
           \A j \in Occurrences(s, substr) : j <= k

\* strings.Cut(s, sep) for a one-character sep: the text before the first
\* sep, and whether there is one
Cut(s, sep) ==
  IF Index(s, sep) = 0
    THEN [before |-> s, found |-> FALSE]
    ELSE [before |-> SubSeq(s, 1, Index(s, sep) - 1), found |-> TRUE]

\* Handler.getClientIP(r) for r.RemoteAddr = addr
getClientIP(addr) ==
  IF HasPrefix(addr, <<"[">>)
    THEN IF LastIndex(addr, <<"]", ":">>) # -1
           THEN SubSeq(addr, 2, LastIndex(addr, <<"]", ":">>))
           ELSE addr
    ELSE IF Cut(addr, ":").found
           THEN Cut(addr, ":").before
           ELSE addr

\* a handler asks for the client IP of its request
GetClientIP ==
  /\ clientIP = Unset
  /\ clientIP' = getClientIP(RemoteAddr)
  /\ UNCHANGED <<limVars, balVars, recVars, healthVars, reqAuth, headerVars,
                 tunnelVars, RemoteAddr, breakerVars, checkerVars, mainVars,
                 lockVars>>

\* the handler of one request
NextClientIP == GetClientIP

\* a request arrives from any remote address
InitClientIP ==
  /\ InitLimiter(MaxPerIP, MaxTotal, LimiterIPs)
  /\ InitBalancer(1, 1)
  /\ NoRequests
  /\ NoTunnel
  /\ RemoteAddr \in Strings(MaxAddrLen)
  /\ clientIP = Unset
  /\ NotStarted
  /\ Serving
  /\ Unlocked(FALSE)
  /\ NewCircuitBreaker([FailureThreshold |-> 1, SuccessThreshold |-> 1,
                        Timeout |-> 1])

SpecClientIP == InitClientIP /\ [][NextClientIP]_vars

(***************************************************************************)
(* Claims about the client IP.                                             *)
(***************************************************************************)

\* the text of addr before its last ':'
BeforeLastColon(addr) ==
  SubSeq(addr, 1,
         CHOOSE k \in 0..Len(addr) :
           /\ k < Len(addr) /\ addr[k + 1] = ":"
           /\ \A j \in (k + 2)..Len(addr) : addr[j] # ":")

MaxBreakerThreshold == 2
MaxBreakerTimeout == 2
MaxBreakerClock == 4
MaxStreak == 3

\* the run of Record calls after one more call of the given kind
StreakAfter(call) ==
  [kind |-> call, n |-> IF streak.kind = call THEN streak.n + 1 ELSE 1]

\* the history variable after a Record call of the given kind: the run
\* starts again when the state changes
Counted(call) ==
  streak' = IF state' # state THEN [kind |-> "none", n |-> 0]
                               ELSE StreakAfter(call)

\* an IsHealthy that never lets an open circuit go half-open
IsHealthyNoTimeout ==
  /\ lastCall' = <<"IsHealthy", ~exists \/ state # "open">>
  /\ UNCHANGED <<config, ipStateVars, cbNow, streak>>
  /\ UNCHANGED <<limVars, balVars, recVars, healthVars, reqAuth, headerVars,
                 tunnelVars, addrVars, checkerVars, mainVars, lockVars>>

\* cb.IsHealthy(ip)
IsHealthy ==
  /\ IF exists /\ state = "open" /\ cbNow - lastFailure >= config.Timeout
       THEN /\ state' = "half-open"
            /\ successes' = 0
            /\ lastCall' = <<"IsHealthy", TRUE>>
            /\ streak' = [kind |-> "none", n |-> 0]
       ELSE /\ lastCall' = <<"IsHealthy", ~exists \/ state # "open">>
            /\ UNCHANGED <<state, successes, streak>>
  /\ UNCHANGED <<config, exists, failures, lastFailure, cbNow>>
  /\ UNCHANGED <<limVars, balVars, recVars, healthVars, reqAuth, headerVars,
                 tunnelVars, addrVars, checkerVars, mainVars, lockVars>>

\* cb.RecordSuccess(ip)
BreakerRecordSuccess ==
  /\ streak.n < MaxStreak
  /\ IF ~exists
       THEN UNCHANGED <<state, failures, successes>>
       ELSE IF state = "half-open"
         THEN IF successes + 1 >= config.SuccessThreshold
                THEN /\ state' = "closed"
                     /\ failures' = 0
                     /\ successes' = 0
                ELSE /\ successes' = successes + 1
                     /\ UNCHANGED <<state, failures>>
         ELSE IF state = "closed"
           THEN /\ failures' = 0
                /\ UNCHANGED <<state, successes>>
           ELSE UNCHANGED <<state, failures, successes>>
  /\ lastCall' = <<"RecordSuccess", TRUE>>
  /\ Counted("success")
  /\ UNCHANGED <<config, exists, lastFailure, cbNow>>
  /\ UNCHANGED <<limVars, balVars, recVars, healthVars, reqAuth, headerVars,
                 tunnelVars, addrVars, checkerVars, mainVars, lockVars>>

\* cb.RecordFailure(ip): getOrCreateState, then the update
BreakerRecordFailure ==
  /\ streak.n < MaxStreak
  /\ exists' = TRUE
  /\ lastFailure' = cbNow
  /\ IF state = "closed"
       THEN /\ failures' = failures + 1
            /\ state' = IF failures + 1 >= config.FailureThreshold
                          THEN "open" ELSE "closed"
            /\ UNCHANGED successes
       ELSE IF state = "half-open"
         THEN /\ state' = "open"
              /\ successes' = 0
              /\ UNCHANGED failures
         ELSE UNCHANGED <<state, failures, successes>>
  /\ lastCall' = <<"RecordFailure", TRUE>>
  /\ Counted("failure")
  /\ UNCHANGED <<config, cbNow>>
  /\ UNCHANGED <<limVars, balVars, recVars, healthVars, reqAuth, headerVars,
                 tunnelVars, addrVars, checkerVars, mainVars, lockVars>>

\* time passes between two calls
BreakerTick ==
  /\ cbNow < MaxBreakerClock
  /\ cbNow' = cbNow + 1
  /\ lastCall' = <<"none", TRUE>>
  /\ UNCHANGED <<config, ipStateVars, streak>>
  /\ UNCHANGED <<limVars, balVars, recVars, healthVars, reqAuth, headerVars,
                 tunnelVars, addrVars, checkerVars, mainVars, lockVars>>

NextBreaker ==
  \/ IsHealthy
  \/ BreakerRecordSuccess
  \/ BreakerRecordFailure
  \/ BreakerTick

\* a circuit breaker with any thresholds and Timeout
InitBreaker ==
  /\ InitLimiter(MaxPerIP, MaxTotal, LimiterIPs)
  /\ InitBalancer(1, 1)
  /\ NoRequests
  /\ NoTunnel
  /\ NoAddr
  /\ NotStarted
  /\ Serving
  /\ Unlocked(FALSE)
  /\ \E f, k \in 1..MaxBreakerThreshold : \E t \in 1..MaxBreakerTimeout :
       NewCircuitBreaker([FailureThreshold |-> f, SuccessThreshold |-> k,
                          Timeout |-> t])

SpecBreaker == InitBreaker /\ [][NextBreaker]_vars


(***************************************************************************)
(* Claims about the circuit breaker.                                       *)
(***************************************************************************)

\* C33: the state of the circuit changes exactly as follows.  Closed turns
\* Open at the failure that is the FailureThreshold-th recorded in a row
\* (no success in between) and otherwise stays Closed; Open answers
\* IsHealthy with false and stays Open until Timeout has passed since
\* the last failure, when IsHealthy turns it HalfOpen and answers true;
\* HalfOpen turns Open at any failure, Closed at the SuccessThreshold-th
\* success in a row, and otherwise stays HalfOpen; Closed and HalfOpen
\* answer IsHealthy with true.
C33_TransitionsExactly ==
  [][LET call == lastCall'[1]
     IN /\ state = "closed" =>
             state' = IF /\ call = "RecordFailure"
                         /\ StreakAfter("failure").n = config.FailureThreshold
                        THEN "open" ELSE "closed"
        /\ state = "open" =>
             /\ state' = IF /\ call = "IsHealthy"
                            /\ cbNow - lastFailure >= config.Timeout
                           THEN "half-open" ELSE "open"
             /\ call = "IsHealthy" => lastCall'[2] = (state' = "half-open")
        /\ state = "half-open" =>
             state' = IF call = "RecordFailure" THEN "open"
                      ELSE IF /\ call = "RecordSuccess"
                              /\ StreakAfter("success").n = config.SuccessThreshold
                             THEN "closed" ELSE "half-open"
        /\ (call = "IsHealthy" /\ state # "open") => lastCall'[2] = TRUE]_vars

\* a circuit with both thresholds at 2 has just been closed by the second
\* success recorded in HalfOpen, after it was opened and its Timeout passed
C33_Witness ==
  /\ config.FailureThreshold = 2 /\ config.SuccessThreshold = 2
  /\ exists /\ state = "closed" /\ failures = 0
  /\ lastCall[1] = "RecordSuccess" /\ streak.kind = "none"
  /\ cbNow - lastFailure >= config.Timeout


(***************************************************************************)
(* HealthChecker.Start and Stop (checker_tcp.go:100-116, 173-213)          *)
(*                                                                         *)
(* Start runs checkLoop in a goroutine; checkAll runs one goroutine per IP *)
(* and waits for all of them; Stop closes stopCh and waits for checkLoop.  *)
(* main calls Start right after NewHealthChecker and Stop once, at the     *)
(* shutdown.                                                               *)
(***************************************************************************)
\* the ticks of the ticker checkLoop receives
MaxTicks == 2

\* hc.Start(): hc.wg.Add(1); go hc.checkLoop()
CheckerStart ==
  /\ loop = "none"
  /\ stopper = "idle"
  /\ loop' = "enter"
  /\ UNCHANGED <<probe, stopCh, stopper, ticks>>
  /\ UNCHANGED <<limVars, balVars, recVars, healthVars, reqAuth, headerVars,
                 tunnelVars, addrVars, breakerVars, mainVars, lockVars>>

\* checkAll, up to its wg.Wait: one goroutine for each IP that has a status
checkAllBegin ==
  /\ probe' = [i \in IPSet |-> "check"]
  /\ loop' = "checkAll"

\* checkLoop: the initial hc.checkAll()
checkLoopEnter ==
  /\ loop = "enter"
  /\ checkAllBegin
  /\ UNCHANGED <<stopCh, stopper, ticks>>
  /\ UNCHANGED <<limVars, balVars, recVars, healthVars, reqAuth, headerVars,
                 tunnelVars, addrVars, breakerVars, mainVars, lockVars>>

\* the goroutine of checkAll for IP i: hc.checkIP(ip), then wg.Done(); the
\* Check ends, at the latest at its Timeout
checkAllProbe(i, o) ==
  /\ probe[i] = "check"
  /\ Probed(i, o)
  /\ probe' = [probe EXCEPT ![i] = "done"]
  /\ UNCHANGED <<loop, stopCh, stopper, ticks>>
  /\ UNCHANGED <<thresholds, limVars, balVars, recVars, reqAuth, headerVars,
                 tunnelVars, addrVars, breakerVars, mainVars, lockVars>>

\* checkAll: wg.Wait() returns when every goroutine is done, and checkLoop
\* goes to its select
checkAllEnd ==
  /\ loop = "checkAll"
  /\ \A i \in IPSet : probe[i] = "done"
  /\ probe' = [i \in IPSet |-> "idle"]
  /\ loop' = "select"
  /\ UNCHANGED <<stopCh, stopper, ticks>>
  /\ UNCHANGED <<limVars, balVars, recVars, healthVars, reqAuth, headerVars,
                 tunnelVars, addrVars, breakerVars, mainVars, lockVars>>

\* checkLoop: case <-ticker.C: hc.checkAll(); select may take this case
\* also when stopCh is closed
checkLoopTick ==
  /\ loop = "select"
  /\ ticks < MaxTicks
  /\ ticks' = ticks + 1
  /\ checkAllBegin
  /\ UNCHANGED <<stopCh, stopper>>
  /\ UNCHANGED <<limVars, balVars, recVars, healthVars, reqAuth, headerVars,
                 tunnelVars, addrVars, breakerVars, mainVars, lockVars>>

\* checkLoop: case <-hc.stopCh: return, and the deferred hc.wg.Done()
checkLoopStop ==
  /\ loop = "select"
  /\ stopCh = "closed"
  /\ loop' = "done"
  /\ UNCHANGED <<probe, stopCh, stopper, ticks>>
  /\ UNCHANGED <<limVars, balVars, recVars, healthVars, reqAuth, headerVars,
                 tunnelVars, addrVars, breakerVars, mainVars, lockVars>>

\* hc.Stop(): close(hc.stopCh)
StopClose ==
  /\ stopper = "idle"
  /\ loop # "none"
  /\ stopCh' = "closed"
  /\ stopper' = "wait"
  /\ UNCHANGED <<loop, probe, ticks>>
  /\ UNCHANGED <<limVars, balVars, recVars, healthVars, reqAuth, headerVars,
                 tunnelVars, addrVars, breakerVars, mainVars, lockVars>>

\* a Stop that closes the channel and returns without hc.wg.Wait()
StopWaitMissing ==
  /\ stopper = "wait"
  /\ stopper' = "returned"
  /\ UNCHANGED <<loop, probe, stopCh, ticks>>
  /\ UNCHANGED <<limVars, balVars, recVars, healthVars, reqAuth, headerVars,
                 tunnelVars, addrVars, breakerVars, mainVars, lockVars>>

\* hc.Stop(): hc.wg.Wait() returns when checkLoop has returned
StopWait ==
  /\ stopper = "wait"
  /\ loop = "done"
  /\ stopper' = "returned"
  /\ UNCHANGED <<loop, probe, stopCh, ticks>>
  /\ UNCHANGED <<limVars, balVars, recVars, healthVars, reqAuth, headerVars,
                 tunnelVars, addrVars, breakerVars, mainVars, lockVars>>

NextChecker ==
  \/ CheckerStart
  \/ checkLoopEnter
  \/ \E i \in IPSet : \E o \in ProbeOutcomes : checkAllProbe(i, o)
  \/ checkAllEnd
  \/ checkLoopTick
  \/ checkLoopStop
  \/ StopClose
  \/ StopWait

\* a health checker with thresholds of at least one, made and not started
InitChecker ==
  /\ InitLimiter(MaxPerIP, MaxTotal, LimiterIPs)
  /\ NoRequests
  /\ NoTunnel
  /\ NoAddr
  /\ NewCircuitBreaker([FailureThreshold |-> 1, SuccessThreshold |-> 1,
                        Timeout |-> 1])
  /\ NotStarted
  /\ Serving
  /\ Unlocked(FALSE)
  /\ NewHistory(MaxWindow, MaxHistorySize, 0)
  /\ NoRecorders
  /\ \E ft \in 1..MaxThreshold : \E st \in 1..MaxThreshold : NewHealthChecker(ft, st)

SpecChecker == InitChecker /\ [][NextChecker]_vars

\* the goroutines run: a probe ends, checkAll and Stop go on when what they
\* wait for has happened, and the select of checkLoop, which chooses among
\* its ready cases at random, does not pass over the closed stopCh for ever
CheckerFairness ==
  /\ WF_vars(checkLoopEnter)
  /\ WF_vars(\E i \in IPSet : \E o \in ProbeOutcomes : checkAllProbe(i, o))
  /\ WF_vars(checkAllEnd)
  /\ SF_vars(checkLoopStop)
  /\ WF_vars(StopWait)

SpecCheckerFair == SpecChecker /\ CheckerFairness

(***************************************************************************)
(* Claims about the stop of the health checker.                            *)
(***************************************************************************)

\* C32: once Stop has returned, checkLoop has returned and no probe is
\* running, no step starts a probe or changes the health state of an IP;
\* and a Stop that has closed stopCh does return
C32_StopJoinsTheProbes ==
  /\ [](stopper = "returned" =>
          loop = "done" /\ \A i \in IPSet : probe[i] = "idle")
  /\ [][stopper = "returned" => UNCHANGED <<probe, statusVars>>]_vars
  /\ (stopper = "wait" ~> stopper = "returned")

\* Stop has returned after it was called during the probes of a tick, one of
\* which has made its IP lose the Healthy state
C32_Witness ==
  /\ stopper = "returned"
  /\ ticks >= 1
  /\ \E i \in IPSet : State[i] # "Healthy"


(***************************************************************************)
(* main from the shutdown signal on (main.go:140-190), with                *)
(* Server.WaitForConnections and Server.Shutdown (part_014).  The 30       *)
(* seconds of the wait and of the context are MaxDrainTime.  Of            *)
(* http.Server.Shutdown the model has what net/http documents: it closes   *)
(* the listener and the idle connections, and returns when the others have *)
(* become idle and were closed, or when its context has expired.           *)
(***************************************************************************)
MaxDrainTime == 2

\* what the shutdown leaves alone
notMain == <<limVars, balVars, recVars, healthVars, reqAuth, headerVars,
             tunnelVars, addrVars, breakerVars, checkerVars, lockVars>>

\* s.limiter.GetTotalCount(): the slots held by the requests being served
GetTotalCount == Cardinality({c \in Conns : conns[c] = "active"})

\* main has begun to wait for the connections
DrainBegun == mainPc \notin {"signal", "setReady"}

\* the listener accepts the connection c
Accept(c) ==
  /\ listening
  /\ conns[c] = "closed"
  /\ conns' = [conns EXCEPT ![c] = "idle"]
  /\ late' = (late \/ DrainBegun)
  /\ UNCHANGED <<mainPc, ready, listening, transports, cleanupLoop, checkLoop,
                 waited, done>>
  /\ UNCHANGED notMain

\* a request arrives on the connection c and its handler acquires a slot
Request(c) ==
  /\ conns[c] = "idle"
  /\ conns' = [conns EXCEPT ![c] = "active"]
  /\ UNCHANGED <<mainPc, ready, listening, transports, cleanupLoop, checkLoop,
                 waited, done, late>>
  /\ UNCHANGED notMain

\* the handler of the request on c returns and releases its slot; a server
\* that is shutting down closes the connection
Finish(c) ==
  /\ conns[c] = "active"
  /\ conns' = [conns EXCEPT ![c] = IF mainPc = "httpWait" THEN "closed"
                                                          ELSE "idle"]
  /\ UNCHANGED <<mainPc, ready, listening, transports, cleanupLoop, checkLoop,
                 waited, done, late>>
  /\ UNCHANGED notMain

\* the client closes its idle connection
ClientClose(c) ==
  /\ conns[c] = "idle"
  /\ conns' = [conns EXCEPT ![c] = "closed"]
  /\ UNCHANGED <<mainPc, ready, listening, transports, cleanupLoop, checkLoop,
                 waited, done, late>>
  /\ UNCHANGED notMain

\* sig := <-sigCh with SIGINT or SIGTERM: main leaves its loop
Signal ==
  /\ mainPc = "signal"
  /\ mainPc' = "setReady"
  /\ UNCHANGED <<ready, listening, conns, transports, cleanupLoop, checkLoop,
                 waited, done, late>>
  /\ UNCHANGED notMain

\* metricsServer.SetReady(false); ctx, cancel := context.WithTimeout(30 s);
\* WaitForConnections sets its deadline
SetReadyFalse ==
  /\ mainPc = "setReady"
  /\ ready' = FALSE
  /\ waited' = 0
  /\ done' = done \cup {"not_ready"}
  /\ mainPc' = "wait"
  /\ UNCHANGED <<listening, conns, transports, cleanupLoop, checkLoop, late>>
  /\ UNCHANGED notMain

\* time passes while main waits
DrainTick ==
  /\ mainPc \in {"wait", "httpWait"}
  /\ waited <= MaxDrainTime
  /\ waited' = waited + 1
  /\ UNCHANGED <<mainPc, ready, listening, conns, transports, cleanupLoop,
                 checkLoop, done, late>>
  /\ UNCHANGED notMain

\* proxyServer.WaitForConnections(30 s) returns at a tick of its ticker at
\* which the total count is zero or the deadline is passed
WaitForConnections ==
  /\ mainPc = "wait"
  /\ GetTotalCount = 0 \/ waited > MaxDrainTime
  /\ done' = done \cup {"drained"}
  /\ mainPc' = "shutdown"
  /\ UNCHANGED <<ready, listening, conns, transports, cleanupLoop, checkLoop,
                 waited, late>>
  /\ UNCHANGED notMain

\* Server.Shutdown: s.transportPool.Close()
TransportPoolClose ==
  /\ mainPc = "shutdown"
  /\ transports' = "closed"
  /\ done' = done \cup {"transports_closed"}
  /\ mainPc' = "httpShutdown"
  /\ UNCHANGED <<ready, listening, conns, cleanupLoop, checkLoop, waited,
                 late>>
  /\ UNCHANGED notMain

\* Server.Shutdown: s.httpServer.Shutdown(ctx) closes the listener and the
\* idle connections
HTTPShutdown ==
  /\ mainPc = "httpShutdown"
  /\ listening' = FALSE
  /\ conns' = [c \in Conns |-> IF conns[c] = "idle" THEN "closed" ELSE conns[c]]
  /\ done' = done \cup {"listener_closed"}
  /\ mainPc' = "httpWait"
  /\ UNCHANGED <<ready, transports, cleanupLoop, checkLoop, waited, late>>
  /\ UNCHANGED notMain

\* s.httpServer.Shutdown(ctx) returns: every connection is closed, or the
\* context made before the wait has expired
HTTPShutdownReturn ==
  /\ mainPc = "httpWait"
  /\ (\A c \in Conns : conns[c] = "closed") \/ waited > MaxDrainTime
  /\ mainPc' = "balStop"
  /\ UNCHANGED <<ready, listening, conns, transports, cleanupLoop, checkLoop,
                 waited, done, late>>
  /\ UNCHANGED notMain

\* bal.Stop(): the cleanup loop of the balancer has returned
BalStop ==
  /\ mainPc = "balStop"
  /\ cleanupLoop' = "stopped"
  /\ mainPc' = "healthStop"
  /\ UNCHANGED <<ready, listening, conns, transports, checkLoop, waited, done,
                 late>>
  /\ UNCHANGED notMain

\* healthChecker.Stop(): the check loop has returned
HealthStop ==
  /\ mainPc = "healthStop"
  /\ checkLoop' = "stopped"
  /\ done' = done \cup {"tickers_stopped"}
  /\ mainPc' = "metricsShutdown"
  /\ UNCHANGED <<ready, listening, conns, transports, cleanupLoop, waited,
                 late>>
  /\ UNCHANGED notMain

\* metricsServer.Shutdown(ctx), and main returns
Exit ==
  /\ mainPc = "metricsShutdown"
  /\ done' = done \cup {"exit"}
  /\ mainPc' = "exit"
  /\ UNCHANGED <<ready, listening, conns, transports, cleanupLoop, checkLoop,
                 waited, late>>
  /\ UNCHANGED notMain

NextMain ==
  \/ \E c \in Conns : Accept(c)
  \/ \E c \in Conns : Request(c)
  \/ \E c \in Conns : Finish(c)
  \/ \E c \in Conns : ClientClose(c)
  \/ Signal
  \/ SetReadyFalse
  \/ DrainTick
  \/ WaitForConnections
  \/ TransportPoolClose
  \/ HTTPShutdown
  \/ HTTPShutdownReturn
  \/ BalStop
  \/ HealthStop
  \/ Exit

\* the proxy is serving
InitMain ==
  /\ InitLimiter(MaxPerIP, MaxTotal, LimiterIPs)
  /\ InitBalancer(1, 1)
  /\ NoRequests
  /\ NoTunnel
  /\ NoExt

SpecMain == InitMain /\ [][NextMain]_vars

(***************************************************************************)
(* Claims about the shutdown.                                              *)
(***************************************************************************)

\* the steps of the shutdown in the order stated
StatedOrder ==
  <<"not_ready", "listener_closed", "drained", "transports_closed",
    "tickers_stopped", "exit">>

\* C31: at the shutdown signal readiness goes off, then the listener stops
\* accepting, then main waits for the connections, then the transports
\* close their idle connections, then the tickers stop, then the process
\* exits: no step is made before a step stated before it, and no connection
\* is accepted once main has begun to wait for the connections
C31_ShutdownInStatedOrder ==
  /\ \A j, k \in 1..Len(StatedOrder) :
       (j < k /\ StatedOrder[k] \in done) => StatedOrder[j] \in done
  /\ ~late


(***************************************************************************)
(* The locks of History (h.mu) and of each HostHistory (part_012).         *)
(*                                                                         *)
(* A call is the sequence of its lock operations and map updates in        *)
(* program order.  Lock() is two steps: the goroutine announces itself,    *)
(* which keeps new readers out, and gets the lock when no reader and no    *)
(* writer holds it.  What a call finds in the entries is left open: an     *)
(* eviction or a cleanup may or may not empty a host.                      *)
(***************************************************************************)
\* one thing to do: a lock operation on the lock l, or a step on the map
\* made under h.mu
I(op, l) == [op |-> op, l |-> l]

\* the orders in which a range over the map can visit the hosts hs
Orders(hs) ==
  {o \in [1..Cardinality(hs) -> hs] :
     \A j, k \in 1..Cardinality(hs) : j # k => o[j] # o[k]}

\* what the body of a loop over the hosts does with the lock of host h
Body(loopOf, h) ==
  IF loopOf = "Cleanup"
    THEN <<I("Lock", h), I("Unlock", h), I("RLock", h), I("RUnlock", h)>>
    ELSE <<I("RLock", h), I("RUnlock", h)>>

\* the loop over the hosts in the order o
RECURSIVE Loop(_, _)
Loop(loopOf, o) ==
  IF o = <<>> THEN <<>> ELSE Body(loopOf, Head(o)) \o Loop(loopOf, Tail(o))

\* History.Record(host, ip)
RecordProgram(h) ==
  (IF hasCap
     THEN <<I("Lock", "mu"), I("evict", "mu"), I("Unlock", "mu")>>
     ELSE <<>>)
  \o <<I("RLock", "mu"), I("getOrCreate", h)>>

\* History.GetFiltered(host, window, maxSize)
GetFilteredProgram(h) == <<I("RLock", "mu"), I("lookup", h)>>

\* History.Cleanup(window)
CleanupProgram ==
  <<I("Lock", "mu"), I("cleanupAll", "mu"), I("Unlock", "mu")>>

\* History.Stats()
StatsProgram == <<I("RLock", "mu"), I("statsAll", "mu"), I("RUnlock", "mu")>>

\* the calls a goroutine can make
Programs ==
  {RecordProgram(h) : h \in Hosts} \cup {GetFilteredProgram(h) : h \in Hosts}
    \cup {CleanupProgram, StatsProgram}

\* goroutine p is in a call whose next thing to do is op
Next1(p, op) == todo[p] # <<>> /\ Head(todo[p]).op = op

\* p goes on with the things to do first and then the rest of its call
Continue(p, first) == todo' = [todo EXCEPT ![p] = first \o Tail(todo[p])]

\* what the lock model leaves alone
notLocks == <<limVars, balVars, recVars, healthVars, reqAuth, headerVars,
              tunnelVars, addrVars, breakerVars, checkerVars, mainVars>>

\* a goroutine calls Record, GetFiltered, Cleanup or Stats
HistoryCall(p) ==
  /\ todo[p] = <<>>
  /\ \E prog \in Programs : todo' = [todo EXCEPT ![p] = prog]
  /\ UNCHANGED <<lockW, lockR, lockQ, present, hasCap>>
  /\ UNCHANGED notLocks

\* mu.RLock(): waits while a writer holds the lock or is inside Lock()
DoRLock(p) ==
  /\ Next1(p, "RLock")
  /\ LET l == Head(todo[p]).l
     IN /\ lockW[l] = NoProc
        /\ lockQ[l] = {}
        /\ lockR' = [lockR EXCEPT ![l] = @ \cup {p}]
  /\ Continue(p, <<>>)
  /\ UNCHANGED <<lockW, lockQ, present, hasCap>>
  /\ UNCHANGED notLocks

\* mu.RUnlock()
DoRUnlock(p) ==
  /\ Next1(p, "RUnlock")
  /\ lockR' = [lockR EXCEPT ![Head(todo[p]).l] = @ \ {p}]
  /\ Continue(p, <<>>)
  /\ UNCHANGED <<lockW, lockQ, present, hasCap>>
  /\ UNCHANGED notLocks

\* mu.Lock(), entered: new readers wait from now on
DoLock(p) ==
  /\ Next1(p, "Lock")
  /\ lockQ' = [lockQ EXCEPT ![Head(todo[p]).l] = @ \cup {p}]
  /\ Continue(p, <<I("acquire", Head(todo[p]).l)>>)
  /\ UNCHANGED <<lockW, lockR, present, hasCap>>
  /\ UNCHANGED notLocks

\* mu.Lock() returns when no goroutine holds the lock
DoAcquire(p) ==
  /\ Next1(p, "acquire")
  /\ LET l == Head(todo[p]).l
     IN /\ lockW[l] = NoProc
        /\ lockR[l] = {}
        /\ lockW' = [lockW EXCEPT ![l] = p]
        /\ lockQ' = [lockQ EXCEPT ![l] = @ \ {p}]
  /\ Continue(p, <<>>)
  /\ UNCHANGED <<lockR, present, hasCap>>
  /\ UNCHANGED notLocks

\* mu.Unlock()
DoUnlock(p) ==
  /\ Next1(p, "Unlock")
  /\ lockW' = [lockW EXCEPT ![Head(todo[p]).l] = NoProc]
  /\ Continue(p, <<>>)
  /\ UNCHANGED <<lockR, lockQ, present, hasCap>>
  /\ UNCHANGED notLocks

\* Record under h.mu: if h.totalEntries >= h.maxTotalEntries
\* { h.evictOldestLocked() }, whose first loop reads every host
DoEvict(p) ==
  /\ Next1(p, "evict")
  /\ \/ Continue(p, <<>>)
     \/ \E o \in Orders(present) :
          Continue(p, Loop("evictOldestLocked", o) \o <<I("evictOldest", "mu")>>)
  /\ UNCHANGED <<lockW, lockR, lockQ, present, hasCap>>
  /\ UNCHANGED notLocks

\* evictOldestLocked: if oldestHost != "" { hh.mu.Lock() ... hh.mu.Unlock() }
DoEvictOldest(p) ==
  /\ Next1(p, "evictOldest")
  /\ \/ Continue(p, <<>>)
     \/ \E h \in present :
          Continue(p, <<I("Lock", h), I("removeFirst", h), I("Unlock", h)>>)
  /\ UNCHANGED <<lockW, lockR, lockQ, present, hasCap>>
  /\ UNCHANGED notLocks

\* evictOldestLocked under both locks: the first entry goes, and the host
\* with it when it has no entry left
DoRemoveFirst(p) ==
  /\ Next1(p, "removeFirst")
  /\ present' \in {present, present \ {Head(todo[p]).l}}
  /\ Continue(p, <<>>)
  /\ UNCHANGED <<lockW, lockR, lockQ, hasCap>>
  /\ UNCHANGED notLocks

\* GetOrCreate under the read lock: hh, exists := h.hosts[host]; then the
\* write lock and the creation when the host is missing; then hh.Add(ip)
DoGetOrCreate(p) ==
  /\ Next1(p, "getOrCreate")
  /\ LET h == Head(todo[p]).l
     IN Continue(p,
          <<I("RUnlock", "mu")>>
          \o (IF h \in present
                THEN <<>>
                ELSE <<I("Lock", "mu"), I("create", h), I("Unlock", "mu")>>)
          \o <<I("Lock", h), I("Unlock", h)>>)
  /\ UNCHANGED <<lockW, lockR, lockQ, present, hasCap>>
  /\ UNCHANGED notLocks

\* GetOrCreate under the write lock: h.hosts[host] = hh unless it exists
DoCreate(p) ==
  /\ Next1(p, "create")
  /\ present' = present \cup {Head(todo[p]).l}
  /\ Continue(p, <<>>)
  /\ UNCHANGED <<lockW, lockR, lockQ, hasCap>>
  /\ UNCHANGED notLocks

\* a GetFiltered that holds the lock of the host while it takes h.mu again
DoLookupInnerFirst(p) ==
  /\ Next1(p, "lookup")
  /\ LET h == Head(todo[p]).l
     IN Continue(p,
          <<I("RUnlock", "mu")>>
          \o (IF h \in present
                THEN <<I("RLock", h), I("RLock", "mu"), I("RUnlock", "mu"),
                       I("RUnlock", h)>>
                ELSE <<>>))
  /\ UNCHANGED <<lockW, lockR, lockQ, present, hasCap>>
  /\ UNCHANGED notLocks

\* History.GetFiltered under the read lock: hh, exists := h.hosts[host];
\* then hh.GetFiltered when the host exists
DoLookup(p) ==
  /\ Next1(p, "lookup")
  /\ LET h == Head(todo[p]).l
     IN Continue(p,
          <<I("RUnlock", "mu")>>
          \o (IF h \in present THEN <<I("RLock", h), I("RUnlock", h)>>
                               ELSE <<>>))
  /\ UNCHANGED <<lockW, lockR, lockQ, present, hasCap>>
  /\ UNCHANGED notLocks

\* History.Cleanup: the loop over the hosts, hh.Cleanup and hh.Len for each
DoCleanupAll(p) ==
  /\ Next1(p, "cleanupAll")
  /\ \E o \in Orders(present) :
       Continue(p, Loop("Cleanup", o) \o <<I("delete", "mu")>>)
  /\ UNCHANGED <<lockW, lockR, lockQ, present, hasCap>>
  /\ UNCHANGED notLocks

\* History.Cleanup: delete(h.hosts, host) for the hosts found empty
DoDelete(p) ==
  /\ Next1(p, "delete")
  /\ present' \in SUBSET present
  /\ Continue(p, <<>>)
  /\ UNCHANGED <<lockW, lockR, lockQ, hasCap>>
  /\ UNCHANGED notLocks

\* History.Stats: the loop over the hosts
DoStatsAll(p) ==
  /\ Next1(p, "statsAll")
  /\ \E o \in Orders(present) : Continue(p, Loop("Stats", o))
  /\ UNCHANGED <<lockW, lockR, lockQ, present, hasCap>>
  /\ UNCHANGED notLocks

\* one step of the call of goroutine p
LockStep(p) ==
  \/ DoRLock(p)
  \/ DoRUnlock(p)
  \/ DoLock(p)
  \/ DoAcquire(p)
  \/ DoUnlock(p)
  \/ DoEvict(p)
  \/ DoEvictOldest(p)
  \/ DoRemoveFirst(p)
  \/ DoGetOrCreate(p)
  \/ DoCreate(p)
  \/ DoLookup(p)
  \/ DoCleanupAll(p)
  \/ DoDelete(p)
  \/ DoStatsAll(p)

\* the goroutines that use the History
LockProcs == {"g1", "g2"}

NextLocks ==
  \E p \in LockProcs :
    \/ HistoryCall(p)
    \/ LockStep(p)

\* a History with or without a cap on its entries
InitLocks ==
  /\ InitLimiter(MaxPerIP, MaxTotal, LimiterIPs)
  /\ InitBalancer(1, 1)
  /\ NoRequests
  /\ NoTunnel
  /\ NoAddr
  /\ NotStarted
  /\ Serving
  /\ NewCircuitBreaker([FailureThreshold |-> 1, SuccessThreshold |-> 1,
                        Timeout |-> 1])
  /\ \E c \in BOOLEAN : Unlocked(c)

SpecLocks == InitLocks /\ [][NextLocks]_vars

\* every goroutine in a call runs, and sync.RWMutex hands the lock to a
\* goroutine that waits for it: a waiting goroutine is not passed over for
\* ever
LocksFairness == \A p \in LockProcs : SF_vars(LockStep(p))

SpecLocksFair == SpecLocks /\ LocksFairness


(***************************************************************************)
(* Claims about the locks of the History                                   *)
(***************************************************************************)
\* the locks goroutine p holds
Holds(p) == {l \in Locks : lockW[l] = p \/ p \in lockR[l]}

\* the lock goroutine p is asking for, if any
Wants(p) ==
  IF todo[p] # <<>> /\ Head(todo[p]).op \in {"RLock", "Lock", "acquire"}
    THEN {Head(todo[p]).l}
    ELSE {}

\* h.mu is asked for with no lock held, the lock of a host with at most
\* h.mu held
OuterBeforeInner ==
  \A p \in LockProcs :
    /\ "mu" \in Wants(p) => Holds(p) = {}
    /\ Wants(p) \cap Hosts # {} => Holds(p) \subseteq {"mu"}

\* goroutine p waits for a lock that it cannot get now
Blocked(p) ==
  \/ /\ Next1(p, "RLock")
     /\ lockW[Head(todo[p]).l] # NoProc \/ lockQ[Head(todo[p]).l] # {}
  \/ /\ Next1(p, "acquire")
     /\ lockW[Head(todo[p]).l] # NoProc \/ lockR[Head(todo[p]).l] # {}

\* C40: no interleaving of concurrent Record, GetFiltered, Cleanup, Stats and
\* eviction deadlocks: h.mu and the locks of the hosts are always taken
\* outer before inner, the goroutines in a call never all wait for a lock,
\* and every call eventually returns.
C40_NoDeadlockOuterBeforeInner ==
  /\ []OuterBeforeInner
  /\ []((\E p \in LockProcs : todo[p] # <<>>) =>
          \E p \in LockProcs : todo[p] # <<>> /\ ~Blocked(p))
  /\ \A p \in LockProcs : (todo[p] # <<>>) ~> (todo[p] = <<>>)

\* an eviction holds h.mu and the lock of a host for writing while the
\* other goroutine waits for h.mu
C40_Witness ==
  \E p, q \in LockProcs :
    /\ p # q
    /\ lockW["mu"] = p
    /\ Next1(p, "removeFirst")
    /\ lockW[Head(todo[p]).l] = p
    /\ "mu" \in Wants(q)
    /\ Blocked(q)

=============================================================================
